---- MODULE Spec2Model ----
(***************************************************************************)
(* A model of the sva-bus-server proxy: client API-key guard, header       *)
(* hygiene, cache key construction and the cache-aside / stale-while-      *)
(* revalidate engine of CacheService.                                      *)
(*                                                                         *)
(* Strings whose characters matter (header values, paths, cache keys) are  *)
(* sequences of one-character strings.  Three specifications share the     *)
(* module: SpecKey (the pure cache-key functions), SpecCache (CacheService *)
(* under concurrent requests and passing time) and Spec (the proxy request *)
(* pipeline: guard, header normalisation, upstream call).                  *)
(***************************************************************************)
EXTENDS Integers, Sequences, FiniteSets, TLC

VARIABLES
    kMethod,      \* SpecKey: method argument of buildProxyCacheKey
    kPath,        \* SpecKey: path (with query) argument
    kHeaders,     \* SpecKey: forwarded headers argument
    kKey,         \* SpecKey: the key built
    kPc           \* SpecKey: "input" | "built"

keyVars == <<kMethod, kPath, kHeaders, kKey, kPc>>

VARIABLES
    now,          \* Date.now(), in milliseconds
    keyRecords,   \* state store: {prefix}:key:{keyId} -> ApiKeyRecord
    hashIndex,    \* state store: {prefix}:hash:{sha256} -> keyId
    rlCounters,   \* state store: {prefix}:ratelimit:{scope}:{identifier}:{windowStart}
    req,          \* the proxy requests in flight, one record per slot
    arrivals      \* the number of proxy requests received so far

pipeVars == <<keyRecords, hashIndex, rlCounters, req, arrivals>>

VARIABLES
    storeKind,    \* cacheManager.store: "redis" | "noop" | "none" (no store)
    cache,        \* the backing store: cache key -> the entry stored under it, if any
    lastWrite,    \* history: per key, the last setWithResult that stored its entry
    creq,         \* the wrapCacheable calls in flight, one record per slot
    refreshes     \* the background refreshes in flight

cacheVars == <<storeKind, cache, lastWrite, creq, refreshes>>

VARIABLES
    fwd,          \* SpecForward: one caller's calls of ProxyService.forward
    pol,          \* SpecPolicy: an upstream response and the policy derived from it
    lim,          \* SpecLimit: concurrent calls of consumeRateLimitForIdentifier
    reg,          \* SpecRegistry: admin operations and validations on the key registry
    adm,          \* SpecInvalidate: calls of CacheAdminService.invalidate
    htp,          \* SpecHttp: calls of HttpClientService.requestRaw
    gad           \* SpecAdmin: admin requests through AdminAuthGuard to their handlers

fnVars == <<fwd, pol, lim, reg, adm, htp, gad>>

vars == <<keyVars, now, pipeVars, cacheVars, fnVars>>

-----------------------------------------------------------------------------
(* Characters and strings *)

HexDigits == {"0", "1", "2", "3", "4", "5", "6", "7", "8", "9", "a", "b", "c", "d", "e", "f"}

HexSeq == <<"0", "1", "2", "3", "4", "5", "6", "7", "8", "9", "a", "b", "c", "d", "e", "f">>

\* The characters the bounded inputs are made of, in a fixed order (a character's
\* position is its code for the digest below).
Alphabet == <<" ", "/", ":", "|", "-", "_", "*", "a", "d", "e", "g", "j", "k", "o", "p",
              "r", "s", "t", "x", "y", "1", "2", "3", "D", "E", "G", "J", "K", "O", "P", "S",
              "T", "?">>

CharCode(c) == CHOOSE i \in 1..Len(Alphabet) : Alphabet[i] = c

\* String.prototype.toLowerCase on one character
LowerChar(c) ==
    CASE c = "D" -> "d" [] c = "E" -> "e" [] c = "G" -> "g" [] c = "J" -> "j"
      [] c = "K" -> "k" [] c = "O" -> "o" [] c = "P" -> "p" [] c = "S" -> "s"
      [] c = "T" -> "t" [] c = "N" -> "n" [] c = "R" -> "r" [] c = "B" -> "b"
      [] OTHER -> c

Lower(s) == [i \in 1..Len(s) |-> LowerChar(s[i])]

RECURSIVE TrimLeft(_)
TrimLeft(s) == IF s # <<>> /\ Head(s) = " " THEN TrimLeft(Tail(s)) ELSE s

RECURSIVE TrimRight(_)
TrimRight(s) ==
    IF s # <<>> /\ s[Len(s)] = " " THEN TrimRight(SubSeq(s, 1, Len(s) - 1)) ELSE s

\* String.prototype.trim
Trim(s) == TrimRight(TrimLeft(s))

\* String.prototype.includes
Contains(s, sub) ==
    \E i \in 0..(Len(s) - Len(sub)) : SubSeq(s, i + 1, i + Len(sub)) = sub

\* sub occurs in s in some letter case
ContainsAnyCase(s, sub) == Contains(Lower(s), Lower(sub))

Chars(s) == {s[i] : i \in 1..Len(s)}

\* Array.prototype.join
RECURSIVE Join(_, _)
Join(parts, sep) ==
    IF parts = <<>> THEN <<>>
    ELSE IF Len(parts) = 1 THEN parts[1]
    ELSE parts[1] \o sep \o Join(Tail(parts), sep)

-----------------------------------------------------------------------------
(* utils/hash.ts *)

RECURSIVE Mix(_, _, _)
Mix(s, h, m) == IF s = <<>> THEN h ELSE Mix(Tail(s), (h * m + CharCode(Head(s))) % 65536, m)

HexWord(n) ==
    << HexSeq[((n \div 4096) % 16) + 1], HexSeq[((n \div 256) % 16) + 1],
       HexSeq[((n \div 16) % 16) + 1], HexSeq[(n % 16) + 1] >>

\* sha256Hex: a deterministic fixed-width lower-case hex digest of the whole input.
\* SHA-256 itself is replaced by two 16-bit polynomial mixes (8 hex digits instead
\* of 64); what the callers rely on is kept: the output is hex digits only, has a
\* fixed width, and depends on every character of the input.
sha256Hex(value) == HexWord(Mix(value, 7, 31)) \o HexWord(Mix(value, 3, 257))

-----------------------------------------------------------------------------
(* proxy/proxy-cache.ts *)

\* An optional string (string | undefined) is the empty set or a singleton.
Opt(headers, name) == IF name \in DOMAIN headers THEN {headers[name]} ELSE {}

TheValue(opt) == CHOOSE v \in opt : TRUE

\* A version that keeps the letter case of the header value.
normalizeHeaderValueKeepingCase(value) ==
    IF value = {} \/ TheValue(value) = <<>> THEN <<>>
    ELSE Trim(TheValue(value))

normalizeHeaderValue(value) ==
    IF value = {} \/ TheValue(value) = <<>> THEN <<>>
    ELSE Lower(Trim(TheValue(value)))

\* The earlier revision of the key: the api_key header itself, normalised.
hashCredentialPlain(value, method, path) == normalizeHeaderValue(value)

hashCredential(value, method, path) ==
    IF value = {} \/ TheValue(value) = <<>> THEN <<>>
    ELSE LET trimmedValue == Trim(TheValue(value))
         IN  IF Len(trimmedValue) = 0 THEN <<>>
             ELSE sha256Hex(method \o <<":">> \o path \o <<":">> \o trimmedValue)

ProxyPrefix == <<"p", "r", "o", "x", "y", ":">>

buildProxyCacheKey(method, path, headers) ==
    LET accept == normalizeHeaderValue(Opt(headers, "accept"))
        acceptLanguage == normalizeHeaderValue(Opt(headers, "accept-language"))
        apiKeyHash == hashCredential(Opt(headers, "api_key"), method, path)
        headerFingerprint == Join(<<accept, acceptLanguage, apiKeyHash>>, <<"|">>)
    IN  ProxyPrefix \o method \o <<":">> \o path \o <<":">> \o headerFingerprint

-----------------------------------------------------------------------------
(* SpecKey: buildProxyCacheKey applied to bounded inputs *)

MaxKeyLen == 2

KeyChars == {"k", "K", "a", "/", " "}

SeqsUpTo(S, n) == UNION {[1..m -> S] : m \in 0..n}

KeyMethods == {<<"G", "E", "T">>, <<"P", "O", "S", "T">>}

KeyPaths == {<<"/">>, <<"/", "k">>, <<"/", "a", "k">>, <<"/", "k", ":", "j">>}

KeyHeaderValues(name) ==
    CASE name = "accept" -> {<<>>, <<"j">>, <<" ", "J">>, <<"j", ":">>}
      [] name = "accept-language" -> {<<"d", "e">>, <<"D", "E">>}
      [] name = "api_key" -> SeqsUpTo(KeyChars, MaxKeyLen)

KeyHeaderNames == {"accept", "accept-language", "api_key"}

KeyHeaderSets ==
    UNION { { h \in [D -> UNION {KeyHeaderValues(n) : n \in KeyHeaderNames}] :
                \A n \in D : h[n] \in KeyHeaderValues(n) } : D \in SUBSET KeyHeaderNames }

KeyIdle ==
    /\ kMethod = <<>> /\ kPath = <<>> /\ kHeaders = <<>> /\ kKey = <<>> /\ kPc = "off"

PipeIdle ==
    /\ keyRecords = <<>> /\ hashIndex = <<>> /\ rlCounters = <<>> /\ req = <<>>
    /\ arrivals = 0

CacheIdle ==
    /\ storeKind = "off" /\ cache = <<>> /\ lastWrite = <<>> /\ creq = <<>>
    /\ refreshes = <<>>

FnIdle == fwd = <<>> /\ pol = <<>> /\ lim = <<>> /\ reg = <<>> /\ adm = <<>> /\ htp = <<>> /\ gad = <<>>

KeyInit ==
    /\ now = 0
    /\ PipeIdle
    /\ CacheIdle
    /\ FnIdle
    /\ kMethod \in KeyMethods
    /\ kPath \in KeyPaths
    /\ kHeaders \in KeyHeaderSets
    /\ kKey = <<>>
    /\ kPc = "input"

BuildKey ==
    /\ kPc = "input"
    /\ kKey' = buildProxyCacheKey(kMethod, kPath, kHeaders)
    /\ kPc' = "built"
    /\ UNCHANGED <<kMethod, kPath, kHeaders, now, pipeVars, cacheVars, fnVars>>

KeyNext == BuildKey

SpecKey == KeyInit /\ [][KeyNext]_vars

-----------------------------------------------------------------------------
(* C3 *)

RawApiKey == IF "api_key" \in DOMAIN kHeaders THEN kHeaders["api_key"] ELSE <<>>

\* The key without its credential component: proxy:METHOD:PATH:accept|accept-language|
KeyClearPart ==
    ProxyPrefix \o kMethod \o <<":">> \o kPath \o <<":">>
        \o normalizeHeaderValue(Opt(kHeaders, "accept")) \o <<"|">>
        \o normalizeHeaderValue(Opt(kHeaders, "accept-language")) \o <<"|">>

\* C3 as stated: for every input, the built key does not contain the raw api_key
\* header value (a non-empty value) as a substring, in any letter case.
C3_KeyNeverContainsRawApiKey ==
    (kPc = "built" /\ RawApiKey # <<>>) => ~ContainsAnyCase(kKey, RawApiKey)

\* The api_key has a character that, in any letter case, is neither a hex digit nor
\* a character of the clear part of the key.
HasForeignChar ==
    \E c \in Chars(Lower(Trim(RawApiKey))) : c \notin HexDigits \cup Chars(Lower(KeyClearPart))

\* C3 amended: the api_key enters the key only through the hex digest of
\* METHOD:PATH:trimmed key, so a raw api_key with a character that is neither a hex
\* digit nor a character of proxy:METHOD:PATH:accept|accept-language| is not a
\* substring of the key in any letter case.
C3_KeyHidesForeignApiKey ==
    (kPc = "built" /\ HasForeignChar) => ~ContainsAnyCase(kKey, RawApiKey)

C3_Witness == kPc = "built" /\ HasForeignChar /\ Len(Trim(RawApiKey)) = MaxKeyLen

-----------------------------------------------------------------------------
(* Header names and literals of the proxy pipeline *)

H_XApiKey == <<"x", "-", "a", "p", "i", "-", "k", "e", "y">>

H_XRequestId == <<"x", "-", "r", "e", "q", "u", "e", "s", "t", "-", "i", "d">>

H_XDrop == <<"x", "-", "d", "r", "o", "p">>

H_XForwardedFor == <<"x", "-", "f", "o", "r", "w", "a", "r", "d", "e", "d", "-", "f", "o", "r">>

H_XForwardedServer ==
    <<"x", "-", "f", "o", "r", "w", "a", "r", "d", "e", "d", "-", "s", "e", "r", "v", "e", "r">>

H_Accept == <<"a", "c", "c", "e", "p", "t">>

H_ApiKey == <<"a", "p", "i", "_", "k", "e", "y">>

H_Authorization == <<"a", "u", "t", "h", "o", "r", "i", "z", "a", "t", "i", "o", "n">>

H_ContentType == <<"c", "o", "n", "t", "e", "n", "t", "-", "t", "y", "p", "e">>

H_Connection == <<"c", "o", "n", "n", "e", "c", "t", "i", "o", "n">>

H_Host == <<"h", "o", "s", "t">>

H_Cookie == <<"c", "o", "o", "k", "i", "e">>

H_Te == <<"t", "e">>

ApplicationJson == <<"a", "p", "p", "l", "i", "c", "a", "t", "i", "o", "n", "/", "j", "s", "o", "n">>

PlusJson == <<"+", "j", "s", "o", "n">>

TextPlain == <<"t", "e", "x", "t", "/", "p", "l", "a", "i", "n">>

SchemeSep == <<":", "/", "/">>

RoutePrefix == <<"/", "a", "p", "i", "/", "v", "1">>

GET == <<"G", "E", "T">>

POST == <<"P", "O", "S", "T">>

-----------------------------------------------------------------------------
(* proxy/proxy.controller.ts: header hygiene *)

\* String.prototype.split on a one-character separator
RECURSIVE Split(_, _)
Split(s, sep) ==
    IF \A i \in 1..Len(s) : s[i] # sep THEN <<s>>
    ELSE LET i == CHOOSE j \in 1..Len(s) : s[j] = sep /\ \A k \in 1..(j - 1) : s[k] # sep
         IN  <<SubSeq(s, 1, i - 1)>> \o Split(SubSeq(s, i + 1, Len(s)), sep)

StartsWith(s, p) == Len(s) >= Len(p) /\ SubSeq(s, 1, Len(p)) = p

BlockedHeaders ==
    { <<"c", "o", "n", "n", "e", "c", "t", "i", "o", "n">>,
      <<"k", "e", "e", "p", "-", "a", "l", "i", "v", "e">>,
      <<"p", "r", "o", "x", "y", "-", "a", "u", "t", "h", "e", "n", "t", "i", "c", "a", "t", "e">>,
      <<"p", "r", "o", "x", "y", "-", "a", "u", "t", "h", "o", "r", "i", "z", "a", "t", "i", "o", "n">>,
      <<"t", "e">>, <<"t", "r", "a", "i", "l", "e", "r">>,
      <<"t", "r", "a", "n", "s", "f", "e", "r", "-", "e", "n", "c", "o", "d", "i", "n", "g">>,
      <<"u", "p", "g", "r", "a", "d", "e">>, <<"h", "o", "s", "t">>,
      <<"c", "o", "n", "t", "e", "n", "t", "-", "l", "e", "n", "g", "t", "h">>,
      <<"x", "-", "f", "o", "r", "w", "a", "r", "d", "e", "d", "-", "f", "o", "r">>,
      <<"x", "-", "f", "o", "r", "w", "a", "r", "d", "e", "d", "-", "h", "o", "s", "t">>,
      <<"x", "-", "f", "o", "r", "w", "a", "r", "d", "e", "d", "-", "p", "r", "o", "t", "o">>,
      <<"x", "-", "f", "o", "r", "w", "a", "r", "d", "e", "d", "-", "p", "o", "r", "t">>,
      <<"x", "-", "r", "e", "a", "l", "-", "i", "p">> }

AllowlistedHeaders ==
    { <<"a", "c", "c", "e", "p", "t">>,
      <<"a", "c", "c", "e", "p", "t", "-", "e", "n", "c", "o", "d", "i", "n", "g">>,
      <<"a", "c", "c", "e", "p", "t", "-", "l", "a", "n", "g", "u", "a", "g", "e">>,
      <<"a", "p", "i", "_", "k", "e", "y">>,
      <<"a", "u", "t", "h", "o", "r", "i", "z", "a", "t", "i", "o", "n">>,
      <<"c", "o", "n", "t", "e", "n", "t", "-", "t", "y", "p", "e">>,
      <<"u", "s", "e", "r", "-", "a", "g", "e", "n", "t">> }

\* The tokens of the request's connection header, trimmed and lower-cased
ConnectionTokens(headers) ==
    IF H_Connection \notin DOMAIN headers THEN {}
    ELSE LET parts == Split(headers[H_Connection], ",")
         IN  {Lower(Trim(parts[i])) : i \in 1..Len(parts)} \ {<<>>}

isAllowedHeader(header, allowlistedHeaders) ==
    \/ StartsWith(header, <<"x", "-">>)
    \/ header \in allowlistedHeaders

\* Request headers are string-valued here (Node joins repeated request headers).
normalizeHeaders(headers) ==
    LET blockedHeaders == BlockedHeaders \cup ConnectionTokens(headers)
        kept == {n \in DOMAIN headers :
                    /\ Lower(n) \notin blockedHeaders
                    /\ isAllowedHeader(Lower(n), AllowlistedHeaders)}
    IN  [n \in {Lower(m) : m \in kept} |-> headers[CHOOSE m \in kept : Lower(m) = n]]

\* HTTP_CLIENT_API_KEY, the server-side upstream credential
ConfiguredApiKey == {<<"t", "k">>}

resolveApiKey(headers) ==
    IF H_ApiKey \in DOMAIN headers /\ Len(headers[H_ApiKey]) > 0 THEN {headers[H_ApiKey]}
    ELSE ConfiguredApiKey

\* buildForwardHeaders: the headers option of the upstream call ({} when it is undefined)
buildForwardHeaders(requestHeaders) ==
    LET headers == normalizeHeaders(requestHeaders)
        apiKey == resolveApiKey(headers)
        withKey == IF apiKey # {}
                   THEN [n \in DOMAIN headers \cup {H_ApiKey} |->
                            IF n = H_ApiKey THEN TheValue(apiKey) ELSE headers[n]]
                   ELSE headers
    IN  IF DOMAIN withKey # {} THEN {withKey} ELSE {}

isJsonContentType(contentType) ==
    IF contentType = {} \/ TheValue(contentType) = <<>> THEN FALSE
    ELSE LET parts == Split(TheValue(contentType), ",")
         IN  \E i \in 1..Len(parts) :
                \/ Contains(Lower(Trim(parts[i])), ApplicationJson)
                \/ Contains(Lower(Trim(parts[i])), PlusJson)

RECURSIVE CollapseLeadingSlashes(_)
\* String.prototype.replace(/^\/+/, '/')
CollapseLeadingSlashes(s) ==
    IF Len(s) >= 2 /\ s[1] = "/" /\ s[2] = "/" THEN CollapseLeadingSlashes(Tail(s)) ELSE s

\* extractPath: the empty set stands for the BadRequestException it throws
extractPath(url) ==
    LET path == Split(url, "?")[1]
    IN  IF path = RoutePrefix THEN {<<"/">>}
        ELSE IF Contains(path, SchemeSep) THEN {}
        ELSE IF StartsWith(path, RoutePrefix \o <<"/">>)
             THEN {CollapseLeadingSlashes(SubSeq(path, Len(RoutePrefix) + 1, Len(path)))}
        ELSE {CollapseLeadingSlashes(IF path = <<>> THEN <<"/">> ELSE path)}

\* extractQueryString: {} stands for null
extractQueryString(url) ==
    IF \A i \in 1..Len(url) : url[i] # "?" THEN {}
    ELSE LET queryIndex == CHOOSE j \in 1..Len(url) : url[j] = "?" /\ \A k \in 1..(j - 1) : url[k] # "?"
         IN  IF queryIndex = Len(url) THEN {} ELSE {SubSeq(url, queryIndex + 1, Len(url))}

-----------------------------------------------------------------------------
(* api-keys/api-keys.service.ts: key registry *)

KeyIds == {"id1", "id2"}

RawK1 == <<"k", "1">>

RawK2 == <<"k", "2">>

RawK3 == <<"k", "3">>

NoExpiry == [kind |-> "none", at |-> 0]

ExpiresAt(t) == [kind |-> "at", at |-> t]

\* Mutation of isExpired: the record is still valid at the instant expiresAt
isExpiredAfterTheInstant(expiresAt) ==
    CASE expiresAt.kind = "none" -> FALSE
      [] expiresAt.kind = "invalid" -> TRUE
      [] OTHER -> now > expiresAt.at

\* Date.parse gives NaN for "invalid": the record counts as expired
isExpired(expiresAt) ==
    CASE expiresAt.kind = "none" -> FALSE
      [] expiresAt.kind = "invalid" -> TRUE
      [] OTHER -> now >= expiresAt.at

\* Mutation of NewRecord: the record keeps the key itself
NewRecordKeepingRawKey(keyId, rawKey, expiresAt) ==
    [keyId |-> keyId, hash |-> rawKey, owner |-> "owner-" \o keyId,
     revoked |-> FALSE, expiresAt |-> expiresAt]

NewRecord(keyId, rawKey, expiresAt) ==
    [keyId |-> keyId, hash |-> sha256Hex(rawKey), owner |-> "owner-" \o keyId,
     revoked |-> FALSE, expiresAt |-> expiresAt]

\* getRecord: the record of keyId, {} for null
getRecord(keyId) == keyRecords[keyId]

\* A validation that does not look at the revoked flag.
validateClientApiKeyIgnoringRevoked(rawApiKey) ==
    IF rawApiKey = {} \/ Len(Trim(TheValue(rawApiKey))) = 0 THEN {}
    ELSE LET hash == sha256Hex(Trim(TheValue(rawApiKey)))
         IN  IF hash \notin DOMAIN hashIndex THEN {}
             ELSE LET record == getRecord(hashIndex[hash])
                  IN  IF record = {} \/ isExpired(TheValue(record).expiresAt) THEN {}
                      ELSE {[keyId |-> TheValue(record).keyId, owner |-> TheValue(record).owner]}

\* validateClientApiKey: the ApiConsumer, {} for null
validateClientApiKey(rawApiKey) ==
    IF rawApiKey = {} \/ Len(Trim(TheValue(rawApiKey))) = 0 THEN {}
    ELSE LET hash == sha256Hex(Trim(TheValue(rawApiKey)))
         IN  IF hash \notin DOMAIN hashIndex THEN {}
             ELSE LET record == getRecord(hashIndex[hash])
                  IN  IF \/ record = {}
                         \/ TheValue(record).revoked
                         \/ isExpired(TheValue(record).expiresAt)
                      THEN {}
                      ELSE {[keyId |-> TheValue(record).keyId, owner |-> TheValue(record).owner]}

\* Whether validateClientApiKey reaches the state store for this header value
ValidationUsesStore(rawApiKey) == rawApiKey # {} /\ Len(Trim(TheValue(rawApiKey))) > 0

revokeApiKey(keyId) ==
    /\ getRecord(keyId) # {}
    /\ keyRecords' = [keyRecords EXCEPT ![keyId] =
                        IF TheValue(@).revoked THEN @
                        ELSE {[TheValue(@) EXCEPT !.revoked = TRUE]}]
    /\ UNCHANGED hashIndex

activateApiKey(keyId) ==
    /\ getRecord(keyId) # {}
    /\ keyRecords' = [keyRecords EXCEPT ![keyId] = {[TheValue(@) EXCEPT !.revoked = FALSE]}]
    /\ UNCHANGED hashIndex

deleteApiKey(keyId) ==
    /\ getRecord(keyId) # {}
    /\ keyRecords' = [keyRecords EXCEPT ![keyId] = {}]
    /\ hashIndex' = [h \in DOMAIN hashIndex \ {TheValue(getRecord(keyId)).hash} |-> hashIndex[h]]

-----------------------------------------------------------------------------
(* api-keys/api-keys.service.ts: fixed-window rate limit *)

\* API_KEYS_RATE_LIMIT_WINDOW_SECONDS
RateLimitWindowSeconds == 1

\* API_KEYS_RATE_LIMIT_MAX_REQUESTS
RateLimitMaxRequests == 1

MsPerSecond == 1000

Max(a, b) == IF a >= b THEN a ELSE b

NowSeconds == now \div MsPerSecond

WindowStart == (NowSeconds \div RateLimitWindowSeconds) * RateLimitWindowSeconds

rateLimitKey(scope, identifier, windowStart) == <<scope, identifier[1], identifier[2], windowStart>>

\* keyId as the identifier of scope "key"
KeyIdentifier(keyId) == <<keyId, "">>

buildPreAuthIdentifier(ip, rawApiKey) ==
    LET normalizedIp == IF ip = {} \/ TheValue(ip) = "" THEN "unknown" ELSE TheValue(ip)
    IN  IF rawApiKey = {} \/ Len(Trim(TheValue(rawApiKey))) = 0
        THEN <<normalizedIp, "missing">>
        ELSE <<normalizedIp, "present">>

\* Mutation of IncrCount: an existing counter is read, not incremented
IncrCountWithoutIncrement(counterKey) ==
    IF counterKey \in DOMAIN rlCounters THEN rlCounters[counterKey].count ELSE 1

\* INCR counterKey: the count after the increment
IncrCount(counterKey) ==
    IF counterKey \in DOMAIN rlCounters THEN rlCounters[counterKey].count + 1 ELSE 1

\* The store after INCR, and after EXPIRE when the call sets it
CountersAfter(counterKey, withExpire) ==
    LET count == IncrCount(counterKey)
        old == IF counterKey \in DOMAIN rlCounters THEN rlCounters[counterKey]
               ELSE [count |-> 0, hasTtl |-> FALSE, expiresAt |-> 0]
        new == IF count = 1 /\ withExpire
               THEN [count |-> count, hasTtl |-> TRUE,
                     expiresAt |-> now + (RateLimitWindowSeconds + 1) * MsPerSecond]
               ELSE [old EXCEPT !.count = count]
    IN  [k \in DOMAIN rlCounters \cup {counterKey} |->
            IF k = counterKey THEN new ELSE rlCounters[k]]

\* Mutation of RateLimitResult: remaining is not clamped at 0
RateLimitResultUnclamped(count) ==
    [allowed |-> count <= RateLimitMaxRequests,
     limit |-> RateLimitMaxRequests,
     remaining |-> RateLimitMaxRequests - count,
     retryAfter |-> Max(1, WindowStart + RateLimitWindowSeconds - NowSeconds),
     resetAt |-> WindowStart + RateLimitWindowSeconds]

\* consumeRateLimitForIdentifier: the ApiKeyRateLimitResult for the count INCR returned
RateLimitResult(count) ==
    [allowed |-> count <= RateLimitMaxRequests,
     limit |-> RateLimitMaxRequests,
     remaining |-> Max(0, RateLimitMaxRequests - count),
     retryAfter |-> Max(1, WindowStart + RateLimitWindowSeconds - NowSeconds),
     resetAt |-> WindowStart + RateLimitWindowSeconds]

-----------------------------------------------------------------------------
(* proxy/proxy-cache.ts: cache bypass *)

RECURSIVE StripTrailingSlashes(_)
\* String.prototype.replace(/\/+$/, '')
StripTrailingSlashes(s) ==
    IF s # <<>> /\ s[Len(s)] = "/" THEN StripTrailingSlashes(SubSeq(s, 1, Len(s) - 1)) ELSE s

normalizePath(value) ==
    IF value = <<>> THEN <<"/">>
    ELSE LET path == Split(value, "?")[1]
             normalized == IF StartsWith(path, <<"/">>) THEN path ELSE <<"/">> \o path
             stripped == StripTrailingSlashes(normalized)
         IN  IF stripped = <<>> THEN <<"/">> ELSE stripped

\* CACHE_BYPASS_PATHS is unset in the default configuration
BypassPaths == {}

\* A version that takes every authorization header that is not the empty string.
shouldBypassProxyCacheUntrimmed(headers, path, bypassPaths) ==
    IF /\ headers # {}
       /\ H_Authorization \in DOMAIN TheValue(headers)
       /\ Len(TheValue(headers)[H_Authorization]) > 0
    THEN TRUE
    ELSE \E candidate \in bypassPaths :
            \/ normalizePath(candidate) = <<"/">>
            \/ normalizePath(path) = normalizePath(candidate)
            \/ StartsWith(normalizePath(path), normalizePath(candidate) \o <<"/">>)

\* headers is the optional headers option ({} for undefined)
shouldBypassProxyCache(headers, path, bypassPaths) ==
    IF /\ headers # {}
       /\ H_Authorization \in DOMAIN TheValue(headers)
       /\ Len(Trim(TheValue(headers)[H_Authorization])) > 0
    THEN TRUE
    ELSE \E candidate \in bypassPaths :
            \/ normalizePath(candidate) = <<"/">>
            \/ normalizePath(path) = normalizePath(candidate)
            \/ StartsWith(normalizePath(path), normalizePath(candidate) \o <<"/">>)

\* ProxyService.stripQuery
stripQuery(path) == Split(path, "?")[1]

-----------------------------------------------------------------------------
(* The proxy request pipeline: ProxyAccessGuard, then ProxyController *)

MaxReqs == 1

MaxArrivals == 2

MaxTicks == 2

TickMs == MsPerSecond

ReqSlots == 1..MaxReqs

\* The requests clients send: method, url, whether a body was parsed, headers, ip
Shapes ==
    << [method |-> GET, url |-> <<"/", "a", "p", "i", "/", "v", "1", "/", "a">>, hasBody |-> FALSE, ip |-> {"ip1"},
        headers |-> (H_XApiKey :> <<"k", "1">> @@ H_XRequestId :> <<"r", "1">>)],
       [method |-> GET, url |-> <<"/", "a", "p", "i", "/", "v", "1", "/", "a">>, hasBody |-> FALSE, ip |-> {"ip1"},
        headers |-> (H_XRequestId :> <<"r", "1">> @@ H_Accept :> <<"j">>)],
       [method |-> GET, url |-> <<"/", "a", "p", "i", "/", "v", "1", "/", "/", "a", "?", "x", "=", "1">>, hasBody |-> FALSE, ip |-> {"ip2"},
        headers |-> (H_XApiKey :> <<" ", "k", "1", " ">> @@ H_Connection :> <<"x", "-", "d", "r", "o", "p", ",", " ", "T", "E">> @@ H_XDrop :> <<"r", "1">>
                     @@ H_Te :> <<"r", "1">> @@ H_Host :> <<"r", "1">> @@ H_Cookie :> <<"r", "1">>
                     @@ H_XForwardedFor :> <<"r", "1">> @@ H_XForwardedServer :> <<"r", "1">>)],
       [method |-> GET, url |-> <<"/", "a", "p", "i", "/", "v", "1", "/", "a">>, hasBody |-> FALSE, ip |-> {"ip1"},
        headers |-> (H_XApiKey :> <<"k", "2">> @@ H_Authorization :> <<"r", "1">>)],
       [method |-> GET, url |-> <<"/", "a", "p", "i", "/", "v", "1", "/", "a">>, hasBody |-> FALSE, ip |-> {"ip2"},
        headers |-> (H_XApiKey :> <<"k", "3">>)],
       [method |-> POST, url |-> <<"/", "a", "p", "i", "/", "v", "1", "/", "a">>, hasBody |-> TRUE, ip |-> {"ip1"},
        headers |-> (H_XApiKey :> <<"k", "1">> @@ H_ApiKey :> <<"c", "k">> @@ H_ContentType :> ApplicationJson)],
       [method |-> POST, url |-> <<"/", "a", "p", "i", "/", "v", "1", "/", "a">>, hasBody |-> TRUE, ip |-> {"ip1"},
        headers |-> (H_XApiKey :> <<"k", "2">> @@ H_ContentType :> TextPlain)],
       [method |-> GET, url |-> <<"/", "a", "p", "i", "/", "v", "1", "/", "a", ":", "/", "/", "b">>, hasBody |-> FALSE, ip |-> {"ip1"},
        headers |-> (H_XApiKey :> <<"k", "1">>)],
       [method |-> GET, url |-> <<"/", "a", "p", "i", "/", "v", "1", "/", "a">>, hasBody |-> FALSE, ip |-> {},
        headers |-> (H_XApiKey :> <<" ", " ">>)] >>

ShapeIds == 1..Len(Shapes)

IdleReq ==
    [pc |-> "idle", shape |-> 0, consumer |-> {}, keyClass |-> "none", keyLimit |-> {},
     status |-> 0, rateHeaders |-> {}, retryAfter |-> {}, upstream |-> {}, xcache |-> "none"]

ShapeOf(r) == Shapes[req[r].shape]

\* request.headers['x-api-key'] of the request in slot r
RawApiKeyOf(r) == Opt(ShapeOf(r).headers, H_XApiKey)

\* The guards bound to the routes of ProxyController
ProxyRouteGuards == {"ProxyAccessGuard"}

\* How the registry classifies a presented x-api-key at this moment (recorded with
\* the request when the guard validates it)
KeyClassOf(rawApiKey) ==
    IF rawApiKey = {} \/ Len(Trim(TheValue(rawApiKey))) = 0 THEN "missing"
    ELSE LET hash == sha256Hex(Trim(TheValue(rawApiKey)))
         IN  IF hash \notin DOMAIN hashIndex \/ getRecord(hashIndex[hash]) = {} THEN "unknown"
             ELSE LET record == TheValue(getRecord(hashIndex[hash]))
                  IN  IF record.revoked THEN "revoked"
                      ELSE IF isExpired(record.expiresAt) THEN "expired"
                      ELSE "valid"

InvalidKeyClasses == {"missing", "unknown", "revoked", "expired"}

CacheStatuses == {"HIT", "MISS", "STALE", "BYPASS"}

PipeInit ==
    /\ now = 0
    /\ keyRecords = [k \in KeyIds |->
                        IF k = "id1" THEN {NewRecord("id1", RawK1, NoExpiry)}
                        ELSE {NewRecord("id2", RawK2, ExpiresAt(MsPerSecond))}]
    /\ hashIndex = (sha256Hex(RawK1) :> "id1" @@ sha256Hex(RawK2) :> "id2")
    /\ rlCounters = <<>>
    /\ req = [r \in ReqSlots |-> IdleReq]
    /\ arrivals = 0

\* A request arrives; Nest runs the route's guards before the handler.  The slots
\* are interchangeable, so the request takes the lowest free one.
Arrive(r, shape) ==
    /\ req[r].pc = "idle"
    /\ \A q \in ReqSlots : q < r => req[q].pc # "idle"
    /\ arrivals < MaxArrivals
    /\ arrivals' = arrivals + 1
    /\ req' = [req EXCEPT ![r] =
                [IdleReq EXCEPT !.shape = shape,
                                !.pc = IF "ProxyAccessGuard" \in ProxyRouteGuards
                                       THEN "guard" ELSE "handler"]]
    /\ UNCHANGED <<fnVars, keyVars, cacheVars, now, keyRecords, hashIndex, rlCounters>>

\* canActivate, first await: validateClientApiKey(rawApiKey ?? null).  fault is what
\* the state store does: "none", or "unavailable" (no client, or a command rejects).
GuardValidate(r, fault) ==
    /\ req[r].pc = "guard"
    /\ fault = "unavailable" => ValidationUsesStore(RawApiKeyOf(r))
    /\ req' = [req EXCEPT ![r] =
                IF fault = "unavailable"
                THEN [@ EXCEPT !.keyClass = KeyClassOf(RawApiKeyOf(r)),
                               !.status = 503, !.pc = "done"]
                ELSE LET consumer == validateClientApiKey(RawApiKeyOf(r))
                     IN  [@ EXCEPT !.keyClass = KeyClassOf(RawApiKeyOf(r)),
                                   !.consumer = consumer,
                                   !.pc = IF consumer = {} THEN "preauth" ELSE "limit"]]
    /\ UNCHANGED <<fnVars, keyVars, cacheVars, now, keyRecords, hashIndex, rlCounters, arrivals>>

\* Mutation of ConsumeInGuard: a 429 is sent without the retry-after header
ConsumeInGuardWithoutRetryAfter(r, scope, identifier, fault, nextPc, nextStatus) ==
    LET counterKey == rateLimitKey(scope, identifier, WindowStart)
        count == IncrCount(counterKey)
        limit == RateLimitResult(count)
    IN  /\ fault = "expire" => count = 1
        /\ rlCounters' = IF fault = "unavailable" THEN rlCounters
                         ELSE CountersAfter(counterKey, fault = "none")
        /\ req' = [req EXCEPT ![r] =
                    IF fault # "none" THEN [@ EXCEPT !.status = 503, !.pc = "done"]
                    ELSE IF ~limit.allowed
                    THEN [@ EXCEPT !.rateHeaders = {limit},
                                   !.keyLimit = IF scope = "key" THEN {limit} ELSE {},
                                   !.status = 429, !.pc = "done"]
                    ELSE [@ EXCEPT !.rateHeaders = {limit},
                                   !.keyLimit = IF scope = "key" THEN {limit} ELSE {},
                                   !.status = nextStatus, !.pc = nextPc]]

\* consumeRateLimitForIdentifier as canActivate uses it.  fault: "none";
\* "unavailable" (no client, or INCR rejects); "expire" (INCR done, EXPIRE rejects).
\* A limit that was consumed sets the x-ratelimit-* headers; a refusal adds
\* retry-after and ends in 429; otherwise next tells how the guard goes on.
ConsumeInGuard(r, scope, identifier, fault, nextPc, nextStatus) ==
    LET counterKey == rateLimitKey(scope, identifier, WindowStart)
        count == IncrCount(counterKey)
        limit == RateLimitResult(count)
    IN  /\ fault = "expire" => count = 1
        /\ rlCounters' = IF fault = "unavailable" THEN rlCounters
                         ELSE CountersAfter(counterKey, fault = "none")
        /\ req' = [req EXCEPT ![r] =
                    IF fault # "none" THEN [@ EXCEPT !.status = 503, !.pc = "done"]
                    ELSE IF ~limit.allowed
                    THEN [@ EXCEPT !.rateHeaders = {limit}, !.retryAfter = {limit.retryAfter},
                                   !.keyLimit = IF scope = "key" THEN {limit} ELSE {},
                                   !.status = 429, !.pc = "done"]
                    ELSE [@ EXCEPT !.rateHeaders = {limit},
                                   !.keyLimit = IF scope = "key" THEN {limit} ELSE {},
                                   !.status = nextStatus, !.pc = nextPc]]

\* canActivate, no consumer: consumePreAuthRateLimit, then 429 or 401
GuardPreAuth(r, fault) ==
    /\ req[r].pc = "preauth"
    /\ ConsumeInGuard(r, "preauth", buildPreAuthIdentifier(ShapeOf(r).ip, RawApiKeyOf(r)),
                      fault, "done", 401)
    /\ UNCHANGED <<fnVars, keyVars, cacheVars, now, keyRecords, hashIndex, arrivals>>

\* canActivate with a consumer: consumeRateLimit(consumer.keyId), then 429 or true
GuardKeyLimit(r, fault) ==
    /\ req[r].pc = "limit"
    /\ ConsumeInGuard(r, "key", KeyIdentifier(TheValue(req[r].consumer).keyId),
                      fault, "handler", 0)
    /\ UNCHANGED <<fnVars, keyVars, cacheVars, now, keyRecords, hashIndex, arrivals>>

\* ProxyController.handleGet / handlePost, forwardRequest and ProxyService.forward.
\* cacheStatus is the answer of CacheService.wrapCacheable for a cached GET ("none"
\* when the cache is not asked); upstreamStatus is what requestRaw does when it is
\* called: the upstream's status, or 0 when it rejects.
HandleRequest(r, cacheStatus, upstreamStatus) ==
    LET shape == ShapeOf(r)
        unsupported == /\ shape.method = POST
                       /\ shape.hasBody
                       /\ ~isJsonContentType(Opt(shape.headers, H_ContentType))
        path == extractPath(shape.url)
        rawQuery == extractQueryString(shape.url)
        pathWithQuery == IF rawQuery # {}
                         THEN TheValue(path) \o <<"?">> \o TheValue(rawQuery)
                         ELSE TheValue(path)
        headers == buildForwardHeaders(shape.headers)
        outbound == [method |-> shape.method, path |-> pathWithQuery, headers |-> headers]
        forwarded == ~unsupported /\ path # {}
        bypassed == shouldBypassProxyCache(headers, stripQuery(pathWithQuery), BypassPaths)
    IN  /\ req[r].pc = "handler"
        /\ IF ~forwarded THEN cacheStatus = "none" /\ upstreamStatus = 200
           ELSE IF shape.method # GET THEN cacheStatus = "none"
           ELSE IF bypassed THEN cacheStatus = "BYPASS"
           ELSE /\ cacheStatus \in CacheStatuses
                /\ cacheStatus = "HIT" => upstreamStatus = 200
                /\ cacheStatus = "MISS" => upstreamStatus \in {0, 200}
        /\ req' = [req EXCEPT ![r] =
                    IF unsupported THEN [@ EXCEPT !.status = 415, !.pc = "done"]
                    ELSE IF path = {} THEN [@ EXCEPT !.status = 400, !.pc = "done"]
                    ELSE IF cacheStatus = "HIT"
                    THEN [@ EXCEPT !.status = 200, !.xcache = "HIT", !.pc = "done"]
                    ELSE IF cacheStatus = "STALE"
                    THEN [@ EXCEPT !.status = 200, !.xcache = "STALE",
                                   !.upstream = {outbound}, !.pc = "done"]
                    ELSE IF upstreamStatus = 0
                    THEN [@ EXCEPT !.status = 502, !.upstream = {outbound}, !.pc = "done"]
                    ELSE [@ EXCEPT !.status = upstreamStatus, !.xcache = cacheStatus,
                                   !.upstream = {outbound}, !.pc = "done"]]
        /\ UNCHANGED <<fnVars, keyVars, cacheVars, now, keyRecords, hashIndex, rlCounters, arrivals>>

\* The reply is sent and the slot is free again
Recycle(r) ==
    /\ req[r].pc = "done"
    /\ req' = [req EXCEPT ![r] = IdleReq]
    /\ UNCHANGED <<fnVars, keyVars, cacheVars, now, keyRecords, hashIndex, rlCounters, arrivals>>

\* Time passes; the state store drops the counters whose EXPIRE has run out
Tick ==
    /\ now < MaxTicks * TickMs
    /\ now' = now + TickMs
    /\ rlCounters' = [k \in {c \in DOMAIN rlCounters :
                                ~(rlCounters[c].hasTtl /\ rlCounters[c].expiresAt <= now')}
                        |-> rlCounters[k]]
    /\ UNCHANGED <<fnVars, keyVars, cacheVars, keyRecords, hashIndex, req, arrivals>>

RevokeKey(keyId) ==
    /\ revokeApiKey(keyId)
    /\ UNCHANGED <<fnVars, keyVars, cacheVars, now, rlCounters, req, arrivals>>

ActivateKey(keyId) ==
    /\ activateApiKey(keyId)
    /\ UNCHANGED <<fnVars, keyVars, cacheVars, now, rlCounters, req, arrivals>>

DeleteKey(keyId) ==
    /\ deleteApiKey(keyId)
    /\ UNCHANGED <<fnVars, keyVars, cacheVars, now, rlCounters, req, arrivals>>

StoreFaults == {"none", "unavailable", "expire"}

Init == KeyIdle /\ CacheIdle /\ FnIdle /\ PipeInit

Next ==
    \/ \E r \in ReqSlots, shape \in ShapeIds : Arrive(r, shape)
    \/ \E r \in ReqSlots, fault \in {"none", "unavailable"} : GuardValidate(r, fault)
    \/ \E r \in ReqSlots, fault \in StoreFaults : GuardPreAuth(r, fault)
    \/ \E r \in ReqSlots, fault \in StoreFaults : GuardKeyLimit(r, fault)
    \/ \E r \in ReqSlots, cacheStatus \in CacheStatuses \cup {"none"},
          upstreamStatus \in {0, 200, 500} : HandleRequest(r, cacheStatus, upstreamStatus)
    \/ \E r \in ReqSlots : Recycle(r)
    \/ Tick
    \/ \E keyId \in KeyIds : RevokeKey(keyId)
    \/ \E keyId \in KeyIds : ActivateKey(keyId)
    \/ \E keyId \in KeyIds : DeleteKey(keyId)

Spec == Init /\ [][Next]_vars

-----------------------------------------------------------------------------
(* C1 *)

\* The upstream is called for a request only after validateClientApiKey returned
\* a consumer for it and the per-key limit allowed it.
UpstreamOnlyWhenAdmitted ==
    \A r \in ReqSlots :
        req[r].upstream # {} =>
            /\ req[r].consumer # {}
            /\ req[r].keyLimit # {}
            /\ TheValue(req[r].keyLimit).allowed

\* The requests that have been answered with a key the registry did not accept
RejectedKey(r) == req[r].pc = "done" /\ req[r].keyClass \in InvalidKeyClasses

\* C1 as stated: the upstream is called only for a request with a consumer that the
\* per-key limit allowed, and a request whose x-api-key is missing, unknown, revoked
\* or expired ends in 401 or 429 and never reaches the upstream.
C1_InvalidKeyEndsIn401Or429 ==
    /\ UpstreamOnlyWhenAdmitted
    /\ \A r \in ReqSlots :
        RejectedKey(r) => req[r].status \in {401, 429} /\ req[r].upstream = {}

\* C1 amended: the upstream is called only for a request with a consumer that the
\* per-key limit allowed; a request whose x-api-key is missing, unknown, revoked or
\* expired never reaches the upstream and ends in 401 when the preauth limit allowed
\* it, in 429 with retry-after when the preauth limit refused it, or in 503 without
\* rate-limit headers when the key state store failed.
C1_InvalidKeyNeverReachesUpstream ==
    /\ UpstreamOnlyWhenAdmitted
    /\ \A r \in ReqSlots :
        RejectedKey(r) =>
            /\ req[r].upstream = {}
            /\ req[r].consumer = {}
            /\ req[r].status \in {401, 429, 503}
            /\ req[r].status = 401 =>
                    req[r].rateHeaders # {} /\ TheValue(req[r].rateHeaders).allowed
            /\ req[r].status = 429 =>
                    /\ req[r].rateHeaders # {} /\ ~TheValue(req[r].rateHeaders).allowed
                    /\ req[r].retryAfter # {}
            /\ req[r].status = 503 => req[r].rateHeaders = {}

\* A revoked key was presented and answered with 401
C1_Witness ==
    \E r \in ReqSlots :
        /\ RejectedKey(r)
        /\ req[r].keyClass = "revoked"
        /\ req[r].status = 401
        /\ req[r].upstream = {}

-----------------------------------------------------------------------------
(* C2 *)

\* C2: for every proxy request, the x-api-key header the client sent is not among
\* the headers of the outbound upstream request.
C2_XApiKeyNotForwarded ==
    \A r \in ReqSlots : \A out \in req[r].upstream :
        out.headers = {} \/ H_XApiKey \notin DOMAIN TheValue(out.headers)

-----------------------------------------------------------------------------
(* cache/cache.service.ts *)

\* CACHE_TTL_DEFAULT
defaultTtlSeconds == 1

\* CACHE_STALE_TTL
defaultStaleTtlSeconds == 1

\* CacheModule provides the Redis store or, when Redis cannot be reached at start,
\* the no-op store; "none" is a cache manager without a store
StoreKinds == {"redis", "noop", "none"}

CacheKeys == {"ka"}

Values == {"v1", "v2"}

\* a ?? b on optional values
Coalesce(a, b) == IF a # {} THEN a ELSE b

\* A version that trusts every store that exists.
isCacheAvailableIgnoringFallback == storeKind # "none"

isCacheAvailable ==
    IF storeKind = "none" THEN FALSE
    ELSE IF storeKind = "noop" THEN FALSE
    ELSE TRUE

getTtlUnit == IF storeKind = "redis" THEN "ms" ELSE "s"

normalizeTtl(valueSeconds) ==
    IF getTtlUnit = "ms" THEN valueSeconds * MsPerSecond ELSE valueSeconds

\* cacheManager.set(key, value, ttl): the time at which the store drops the entry
\* (the Redis store takes ttl in milliseconds, the others in seconds)
StoreExpiry(ttl) == IF storeKind = "redis" THEN now + ttl ELSE now + ttl * MsPerSecond

\* What is stored under a key: the value, whether it is wrapped in the envelope
\* (__cacheEntry), the envelope's staleUntil, and the store's expiry time
BareValue(value, expiresAt) ==
    [value |-> value, marker |-> FALSE, staleUntil |-> {}, expiresAt |-> expiresAt]

Envelope(value, staleUntil, expiresAt) ==
    [value |-> value, marker |-> TRUE, staleUntil |-> {staleUntil}, expiresAt |-> expiresAt]

isCacheEntry(entry) == entry.marker

\* getEntry: the CacheEntry read, {} for null; getOk is whether cacheManager.get resolved
getEntry(key, getOk) ==
    IF ~getOk \/ cache[key] = {} THEN {}
    ELSE LET entry == TheValue(cache[key])
         IN  IF isCacheEntry(entry) THEN {[value |-> entry.value, staleUntil |-> entry.staleUntil]}
             ELSE {[value |-> entry.value, staleUntil |-> {}]}

\* A version that calls an entry stale from the instant staleUntil on.
getEntryWithStatusEager(key, getOk) ==
    LET entry == getEntry(key, getOk)
    IN  IF entry = {} THEN {}
        ELSE IF TheValue(entry).staleUntil # {} /\ now >= TheValue(TheValue(entry).staleUntil)
        THEN {[entry |-> TheValue(entry), status |-> "STALE"]}
        ELSE {[entry |-> TheValue(entry), status |-> "HIT"]}

getEntryWithStatus(key, getOk) ==
    LET entry == getEntry(key, getOk)
    IN  IF entry = {} THEN {}
        ELSE IF TheValue(entry).staleUntil # {} /\ now > TheValue(TheValue(entry).staleUntil)
        THEN {[entry |-> TheValue(entry), status |-> "STALE"]}
        ELSE {[entry |-> TheValue(entry), status |-> "HIT"]}

\* A version that adds the fresh seconds to the millisecond clock.
setWithResultSeconds(value, options) ==
    LET ttlSeconds == TheValue(Coalesce(options.ttl, {defaultTtlSeconds}))
        staleTtlSeconds == TheValue(Coalesce(options.staleTtl, {0}))
        ttl == normalizeTtl(ttlSeconds)
        staleTtl == normalizeTtl(staleTtlSeconds)
    IN  IF staleTtl > 0
        THEN Envelope(value, now + ttlSeconds, StoreExpiry(ttl + staleTtl))
        ELSE BareValue(value, StoreExpiry(ttl))

\* A version that gives the envelope the fresh TTL only.
setWithResultFreshOnly(value, options) ==
    LET ttlSeconds == TheValue(Coalesce(options.ttl, {defaultTtlSeconds}))
        staleTtlSeconds == TheValue(Coalesce(options.staleTtl, {0}))
        ttl == normalizeTtl(ttlSeconds)
        staleTtl == normalizeTtl(staleTtlSeconds)
    IN  IF staleTtl > 0
        THEN Envelope(value, now + ttlSeconds * MsPerSecond, StoreExpiry(ttl))
        ELSE BareValue(value, StoreExpiry(ttl))

\* setWithResult: what it hands to cacheManager.set
setWithResult(value, options) ==
    LET ttlSeconds == TheValue(Coalesce(options.ttl, {defaultTtlSeconds}))
        staleTtlSeconds == TheValue(Coalesce(options.staleTtl, {0}))
        ttl == normalizeTtl(ttlSeconds)
        staleTtl == normalizeTtl(staleTtlSeconds)
    IN  IF staleTtl > 0
        THEN Envelope(value, now + ttlSeconds * MsPerSecond, StoreExpiry(ttl + staleTtl))
        ELSE BareValue(value, StoreExpiry(ttl))

\* ProxyService.forward calls wrapCacheable without options
NoOptions == [ttl |-> {}, staleTtl |-> {}]

\* result.ttl ?? options?.ttl ?? this.defaultTtlSeconds, and the same for staleTtl
ResolvedOptions(result, options) ==
    [ttl |-> Coalesce(result.ttl, Coalesce(options.ttl, {defaultTtlSeconds})),
     staleTtl |-> Coalesce(result.staleTtl, Coalesce(options.staleTtl, {defaultStaleTtlSeconds}))]

\* What a loader does: it rejects (ok = FALSE) or resolves to a CacheableResult
LoaderResults ==
    { [ok |-> FALSE, value |-> "v1", cacheable |-> FALSE, ttl |-> {}, staleTtl |-> {}] }
    \cup { [ok |-> TRUE, value |-> v, cacheable |-> FALSE, ttl |-> {}, staleTtl |-> {}] :
            v \in Values }
    \cup { [ok |-> TRUE, value |-> v, cacheable |-> TRUE, ttl |-> t, staleTtl |-> s] :
            v \in Values, t \in {{}, {2}}, s \in {{}, {0}} }

\* The set call of a store write goes through
Written(result, setOk) == result.ok /\ result.cacheable /\ setOk

\* A version that reports MISS whether or not the write went through.
StatusAfterStoreAlwaysMiss(stored) == "MISS"

\* return { value: result.value, status: stored ? 'MISS' : 'BYPASS' }
StatusAfterStore(stored) == IF stored THEN "MISS" ELSE "BYPASS"

\* A miss path that stores whatever the loader returned.
StoreAfterLoadAlways(key, result, setOk) ==
    IF result.ok /\ setOk
    THEN [cache EXCEPT ![key] = {setWithResult(result.value, ResolvedOptions(result, NoOptions))}]
    ELSE cache

\* wrapCacheable after the loader of a miss returned: the store
StoreAfterLoad(key, result, setOk) ==
    IF ~result.ok \/ ~result.cacheable THEN cache
    ELSE IF setOk
    THEN [cache EXCEPT ![key] = {setWithResult(result.value, ResolvedOptions(result, NoOptions))}]
    ELSE cache

\* A refresh that drops the entry when its loader or its write fails.
StoreAfterRefreshClearingOnFailure(key, result, setOk) ==
    IF ~result.ok THEN [cache EXCEPT ![key] = {}]
    ELSE IF ~result.cacheable THEN cache
    ELSE IF setOk
    THEN [cache EXCEPT ![key] = {setWithResult(result.value, ResolvedOptions(result, NoOptions))}]
    ELSE [cache EXCEPT ![key] = {}]

\* A refresh that drops the entry when the response is not cacheable.
StoreAfterRefreshDeleting(key, result, setOk) ==
    IF ~result.ok THEN cache
    ELSE IF ~result.cacheable THEN [cache EXCEPT ![key] = {}]
    ELSE IF setOk
    THEN [cache EXCEPT ![key] = {setWithResult(result.value, ResolvedOptions(result, NoOptions))}]
    ELSE cache

\* refreshInBackgroundWithPolicy after its loader returned: the store
StoreAfterRefresh(key, result, setOk) ==
    IF ~result.ok THEN cache
    ELSE IF ~result.cacheable THEN cache
    ELSE IF setOk
    THEN [cache EXCEPT ![key] = {setWithResult(result.value, ResolvedOptions(result, NoOptions))}]
    ELSE cache

-----------------------------------------------------------------------------
(* SpecCache: wrapCacheable under concurrent calls, background refreshes, *)
(* invalidation and passing time                                           *)

MaxCacheReqs == 2

MaxRefreshes == 1

MaxCacheTicks == 5

CacheTickMs == MsPerSecond \div 2

CReqSlots == 1..MaxCacheReqs

RefreshIds == 1..MaxRefreshes

IdleCReq ==
    [pc |-> "idle", key |-> "", status |-> "none", value |-> "", loads |-> 0, gets |-> 0,
     sets |-> 0, getFailed |-> FALSE, loaded |-> "none", old |-> FALSE]

FreeRefresh == [pc |-> "none", key |-> "", loaded |-> "none", old |-> FALSE]

\* What the loader answered: it rejected, or its result is cacheable or not
Answer(result) ==
    IF ~result.ok THEN "rejected"
    ELSE IF result.cacheable THEN "cacheable" ELSE "uncacheable"

\* The history record of a write that stored an entry
WriteRecord(result) ==
    LET options == ResolvedOptions(result, NoOptions)
    IN  [at |-> now, ttl |-> TheValue(options.ttl), staleTtl |-> TheValue(options.staleTtl),
         value |-> result.value, staleServed |-> 0]

CacheInit ==
    /\ KeyIdle
    /\ PipeIdle
    /\ FnIdle
    /\ now = 0
    /\ storeKind \in StoreKinds
    /\ cache = [k \in CacheKeys |-> {}]
    /\ lastWrite = [k \in CacheKeys |-> {}]
    /\ creq = [r \in CReqSlots |-> IdleCReq]
    /\ refreshes = [i \in RefreshIds |-> FreeRefresh]

\* A version that starts no refresh.
ScheduleNoRefresh(key) == refreshes

\* void this.refreshInBackgroundWithPolicy(key, loader, options): the refresh starts
\* and calls the loader; the caller does not await it
ScheduleRefresh(key) ==
    LET i == CHOOSE j \in RefreshIds :
                refreshes[j].pc = "none" /\ \A q \in RefreshIds : q < j => refreshes[q].pc # "none"
    IN  [refreshes EXCEPT ![i] = [pc |-> "loading", key |-> key, loaded |-> "none", old |-> FALSE]]

\* wrapCacheable is called: in fallback mode it calls the loader at once, otherwise
\* it asks the store for the entry.  The slots are interchangeable, so the call takes
\* the lowest free one.
Call(r, key) ==
    /\ creq[r].pc = "idle"
    /\ \A q \in CReqSlots : q < r => creq[q].pc # "idle"
    /\ creq' = [creq EXCEPT ![r] =
                IF ~isCacheAvailable
                THEN [IdleCReq EXCEPT !.key = key, !.pc = "passthrough", !.loads = 1]
                ELSE [IdleCReq EXCEPT !.key = key, !.pc = "lookup", !.gets = 1]]
    /\ UNCHANGED <<fnVars, keyVars, pipeVars, now, storeKind, cache, lastWrite, refreshes>>

\* getEntryWithStatus returns: HIT or STALE ends the call (STALE after starting a
\* refresh), no entry makes it call the loader
LookupReturns(r, getOk) ==
    LET key == creq[r].key
        entryState == getEntryWithStatus(key, getOk)
    IN  /\ creq[r].pc = "lookup"
        /\ IF entryState # {}
           THEN LET found == TheValue(entryState)
                IN  /\ found.status = "STALE" => \E i \in RefreshIds : refreshes[i].pc = "none"
                    /\ creq' = [creq EXCEPT ![r] = [@ EXCEPT !.status = found.status,
                                                             !.value = found.entry.value,
                                                             !.pc = "done"]]
                    /\ refreshes' = IF found.status = "STALE" THEN ScheduleRefresh(key)
                                    ELSE refreshes
                    /\ lastWrite' = IF found.status = "STALE" /\ lastWrite[key] # {}
                                    THEN [lastWrite EXCEPT ![key] =
                                            {[TheValue(@) EXCEPT !.staleServed =
                                                IF @ >= 2 THEN 2 ELSE @ + 1]}]
                                    ELSE lastWrite
           ELSE /\ creq' = [creq EXCEPT ![r] = [@ EXCEPT !.pc = "load", !.loads = @ + 1,
                                                         !.getFailed = ~getOk]]
                /\ UNCHANGED <<refreshes, lastWrite>>
        /\ UNCHANGED <<fnVars, keyVars, pipeVars, now, storeKind, cache>>

\* The loader of the call returns; on the miss path a cacheable result is stored
LoaderReturns(r, result, setOk) ==
    LET key == creq[r].key
        missPath == creq[r].pc = "load"
    IN  /\ creq[r].pc \in {"load", "passthrough"}
        /\ ~setOk => missPath /\ result.ok /\ result.cacheable
        /\ creq' = [creq EXCEPT ![r] =
                    IF ~result.ok
                    THEN [@ EXCEPT !.status = "ERROR", !.loaded = Answer(result), !.pc = "done",
                                   !.old = FALSE]
                    ELSE IF ~missPath \/ result.cacheable = FALSE
                    THEN [@ EXCEPT !.status = "BYPASS", !.value = result.value,
                                   !.loaded = Answer(result), !.pc = "done", !.old = FALSE]
                    ELSE [@ EXCEPT !.status = StatusAfterStore(setOk),
                                   !.value = result.value, !.sets = @ + 1,
                                   !.loaded = Answer(result), !.pc = "done", !.old = FALSE]]
        /\ cache' = IF missPath THEN StoreAfterLoad(key, result, setOk) ELSE cache
        /\ lastWrite' = IF missPath /\ Written(result, setOk)
                        THEN [lastWrite EXCEPT ![key] = {WriteRecord(result)}]
                        ELSE lastWrite
        /\ UNCHANGED <<fnVars, keyVars, pipeVars, now, storeKind, refreshes>>

\* The loader of a background refresh returns; the refresh ends
RefreshReturns(i, result, setOk) ==
    LET key == refreshes[i].key
    IN  /\ refreshes[i].pc = "loading"
        /\ ~setOk => result.ok /\ result.cacheable
        /\ refreshes' = [refreshes EXCEPT ![i] = [@ EXCEPT !.pc = "none", !.old = FALSE,
                                                            !.loaded = Answer(result)]]
        /\ cache' = StoreAfterRefresh(key, result, setOk)
        /\ lastWrite' = IF Written(result, setOk)
                        THEN [lastWrite EXCEPT ![key] = {WriteRecord(result)}]
                        ELSE lastWrite
        /\ UNCHANGED <<fnVars, keyVars, pipeVars, now, storeKind, creq>>

\* The entry of a key is deleted, as an operator's invalidation does it with DEL.
\* The loads and refreshes of the key whose loader is running at that moment are
\* marked (history).
Invalidate(key) ==
    /\ cache[key] # {}
    /\ cache' = [cache EXCEPT ![key] = {}]
    /\ lastWrite' = [lastWrite EXCEPT ![key] = {}]
    /\ creq' = [r \in CReqSlots |->
                  IF creq[r].pc = "load" /\ creq[r].key = key
                  THEN [creq[r] EXCEPT !.old = TRUE] ELSE creq[r]]
    /\ refreshes' = [i \in RefreshIds |->
                       IF refreshes[i].pc = "loading" /\ refreshes[i].key = key
                       THEN [refreshes[i] EXCEPT !.old = TRUE] ELSE refreshes[i]]
    /\ UNCHANGED <<fnVars, keyVars, pipeVars, now, storeKind>>

\* The caller has its result; the slot is free again
Return(r) ==
    /\ creq[r].pc = "done"
    /\ creq' = [creq EXCEPT ![r] = IdleCReq]
    /\ UNCHANGED <<fnVars, keyVars, pipeVars, now, storeKind, cache, lastWrite, refreshes>>

\* Time passes; the store drops the entries whose TTL has run out
CacheTick ==
    /\ now < MaxCacheTicks * CacheTickMs
    /\ now' = now + CacheTickMs
    /\ cache' = [k \in CacheKeys |->
                    IF cache[k] # {} /\ TheValue(cache[k]).expiresAt <= now' THEN {}
                    ELSE cache[k]]
    /\ UNCHANGED <<fnVars, keyVars, pipeVars, storeKind, lastWrite, creq, refreshes>>

CacheNext ==
    \/ \E r \in CReqSlots, key \in CacheKeys : Call(r, key)
    \/ \E r \in CReqSlots, getOk \in BOOLEAN : LookupReturns(r, getOk)
    \/ \E r \in CReqSlots, result \in LoaderResults, setOk \in BOOLEAN :
            LoaderReturns(r, result, setOk)
    \/ \E i \in RefreshIds, result \in LoaderResults, setOk \in BOOLEAN :
            RefreshReturns(i, result, setOk)
    \/ \E key \in CacheKeys : Invalidate(key)
    \/ \E r \in CReqSlots : Return(r)
    \/ CacheTick

SpecCache == CacheInit /\ [][CacheNext]_vars

\* A refresh whose loader was called ends: the HTTP client settles every request
\* (response, error or timeout), and so does the store's set
FairSpecCache ==
    /\ SpecCache
    /\ \A i \in RefreshIds :
        WF_vars(\E result \in LoaderResults, setOk \in BOOLEAN : RefreshReturns(i, result, setOk))

-----------------------------------------------------------------------------
(* Steps of wrapCacheable, for the properties below *)

\* The step in which the lookup of call r returns
LookupStep(r) == creq[r].pc = "lookup" /\ creq'[r].pc # "lookup"

\* The entry stored under the key of call r
StoredFor(r) == TheValue(cache[creq[r].key])

\* Date.now() is past the entry's staleUntil
PastStaleUntil(entry) ==
    entry.marker /\ entry.staleUntil # {} /\ now > TheValue(entry.staleUntil)

\* The number of refreshes started in a step for a key
RefreshesStarted(key) ==
    Cardinality({i \in RefreshIds :
        refreshes[i].pc = "none" /\ refreshes'[i].pc = "loading" /\ refreshes'[i].key = key})

-----------------------------------------------------------------------------
(* C4 *)

\* C4: when the cache is not in fallback mode and the lookup returns an entry that
\* is not past its staleUntil (an entry without staleUntil or without the envelope
\* marker counts as fresh), wrapCacheable returns the cached value with status HIT
\* and does not call the loader.
C4_FreshEntryIsHit ==
    [][\A r \in CReqSlots :
        ( /\ LookupStep(r)
          /\ cache[creq[r].key] # {}
          /\ ~creq'[r].getFailed
          /\ ~PastStaleUntil(StoredFor(r)) )
        => /\ creq'[r].pc = "done"
           /\ creq'[r].status = "HIT"
           /\ creq'[r].value = StoredFor(r).value
           /\ creq'[r].loads = 0
           /\ RefreshesStarted(creq[r].key) = 0]_vars

\* A value stored without the envelope was served as a HIT, the loader not called
C4_Witness ==
    \E r \in CReqSlots :
        /\ creq[r].pc = "done" /\ creq[r].status = "HIT" /\ creq[r].loads = 0
        /\ cache[creq[r].key] # {}
        /\ ~StoredFor(r).marker
        /\ creq[r].value = StoredFor(r).value

-----------------------------------------------------------------------------
(* C5 *)

\* The entry of the key was written by wrapCacheable, has not been invalidated or
\* dropped since, and its fresh TTL has not run out
WrittenAndFresh(key) ==
    /\ cache[key] # {}
    /\ lastWrite[key] # {}
    /\ now <= TheValue(lastWrite[key]).at + TheValue(lastWrite[key]).ttl * MsPerSecond

\* C5 as stated: once a request has written the entry of a key, every request whose
\* lookup comes afterwards observes HIT and does not call the loader, until the
\* fresh TTL expires, provided no invalidation occurs in between.
C5_HitAfterWrite ==
    [][\A r \in CReqSlots :
        (LookupStep(r) /\ WrittenAndFresh(creq[r].key))
        => creq'[r].status = "HIT" /\ creq'[r].loads = 0]_vars

\* C5 amended: concurrent requests may each observe MISS and each call the loader;
\* once one of them has written the entry, every request whose lookup comes
\* afterwards and does not fail observes HIT with the written value and does not
\* call the loader, until the fresh TTL expires, provided no invalidation occurs in
\* between.  (A lookup that fails counts as absent: the request calls the loader.)
C5_HitAfterWriteWhenLookupSucceeds ==
    [][\A r \in CReqSlots :
        (LookupStep(r) /\ WrittenAndFresh(creq[r].key) /\ ~creq'[r].getFailed)
        => /\ creq'[r].status = "HIT"
           /\ creq'[r].value = TheValue(lastWrite[creq[r].key]).value
           /\ creq'[r].loads = 0]_vars

\* One request observed MISS and wrote the entry, a second one observed HIT
C5_Witness ==
    \E r, q \in CReqSlots :
        /\ creq[r].pc = "done" /\ creq[r].status = "MISS" /\ creq[r].loads = 1
        /\ creq[q].pc = "done" /\ creq[q].status = "HIT" /\ creq[q].loads = 0
        /\ creq[q].key = creq[r].key
        /\ WrittenAndFresh(creq[r].key)

\* Two requests for one key have both observed a miss and called the loader
C5_ConcurrentMisses ==
    \E r, q \in CReqSlots :
        r # q /\ creq[r].pc = "load" /\ creq[q].pc = "load" /\ creq[q].key = creq[r].key

-----------------------------------------------------------------------------
(* C6 *)

\* C6: when the lookup returns an entry that is past its staleUntil, wrapCacheable
\* returns the cached value with status STALE in that step, without calling or
\* awaiting a loader itself, and starts exactly one background refresh, whose
\* loader is called; every refresh that was started runs to its end, whether or not
\* the request that started it has returned.
C6_StaleStartsRefresh ==
    /\ [][\A r \in CReqSlots :
            ( /\ LookupStep(r)
              /\ cache[creq[r].key] # {}
              /\ ~creq'[r].getFailed
              /\ PastStaleUntil(StoredFor(r)) )
            => /\ creq'[r].pc = "done"
               /\ creq'[r].status = "STALE"
               /\ creq'[r].value = StoredFor(r).value
               /\ creq'[r].loads = 0
               /\ RefreshesStarted(creq[r].key) = 1
               /\ cache' = cache]_vars
    /\ \A i \in RefreshIds : (refreshes[i].pc = "loading") ~> (refreshes[i].pc = "none")

\* A refresh is still running after the request that started it has returned
C6_Witness ==
    /\ \E i \in RefreshIds : refreshes[i].pc = "loading"
    /\ \A r \in CReqSlots : creq[r].pc = "idle"

-----------------------------------------------------------------------------
(* C7 *)

\* The last write of the key, a write with a stale window (S > 0); it has not been
\* invalidated or overwritten since
SwrWrite(key) == lastWrite[key] # {} /\ TheValue(lastWrite[key]).staleTtl > 0

FreshUntil(w) == w.at + w.ttl * MsPerSecond

StaleUntilEnd(w) == w.at + (w.ttl + w.staleTtl) * MsPerSecond

\* The envelope of a write with fresh TTL T and stale window S > 0 has
\* staleUntil = write time + T and stays in the store for T + S
EnvelopeOfWrite ==
    \A key \in CacheKeys :
        (SwrWrite(key) /\ cache[key] # {}) =>
            LET w == TheValue(lastWrite[key])
                entry == TheValue(cache[key])
            IN  /\ entry.marker
                /\ entry.value = w.value
                /\ entry.staleUntil = {FreshUntil(w)}
                /\ entry.expiresAt = StaleUntilEnd(w)

\* A lookup that does not fail, after a write with T and S > 0: within T it is a
\* HIT with the written value; in (T, T+S) it is STALE with the written value and
\* starts a refresh; from T+S on the entry is gone and the loader is called
ReadBack ==
    \A r \in CReqSlots :
        (LookupStep(r) /\ SwrWrite(creq[r].key) /\ ~creq'[r].getFailed) =>
            LET w == TheValue(lastWrite[creq[r].key])
            IN  /\ now <= FreshUntil(w) =>
                    /\ creq'[r].status = "HIT"
                    /\ creq'[r].value = w.value
                    /\ RefreshesStarted(creq[r].key) = 0
                /\ (FreshUntil(w) < now /\ now < StaleUntilEnd(w)) =>
                    /\ creq'[r].status = "STALE"
                    /\ creq'[r].value = w.value
                    /\ RefreshesStarted(creq[r].key) = 1
                /\ now >= StaleUntilEnd(w) =>
                    /\ creq'[r].pc = "load"
                    /\ creq'[r].loads = 1

\* A call that found no entry ends in MISS exactly when its loader's result was
\* cacheable and stored
MissWhenStored ==
    \A r \in CReqSlots :
        (creq[r].pc = "done" /\ creq[r].status = "MISS") =>
            creq[r].loaded = "cacheable" /\ creq[r].sets = 1 /\ creq[r].loads = 1

\* C7 as stated: the round trip of a write with fresh TTL T and stale window S > 0,
\* in which the written entry is returned STALE once.
C7_RoundTripStaleOnce ==
    /\ []EnvelopeOfWrite
    /\ [][ReadBack]_vars
    /\ [](\A key \in CacheKeys :
            lastWrite[key] # {} => TheValue(lastWrite[key]).staleServed <= 1)

\* C7 amended: a cacheable response written with fresh TTL T and stale window
\* S > 0 gets an envelope with staleUntil = write time + T and a backing TTL of
\* T + S; as long as the entry is neither invalidated nor rewritten, a lookup that
\* does not fail returns HIT with the written value within T, returns STALE with
\* the written value and starts a refresh in (T, T+S) -- every such lookup, not
\* only the first -- and from T+S on finds no entry and calls the loader, which
\* yields MISS only when the reloaded response is cacheable and stored.
C7_RoundTrip ==
    /\ []EnvelopeOfWrite
    /\ [][ReadBack]_vars
    /\ []MissWhenStored

\* One written entry has been returned STALE more than once
C7_Witness ==
    \E r \in CReqSlots :
        /\ creq[r].pc = "done" /\ creq[r].status = "STALE"
        /\ SwrWrite(creq[r].key)
        /\ TheValue(lastWrite[creq[r].key]).staleServed = 2
        /\ creq[r].value = TheValue(lastWrite[creq[r].key]).value

-----------------------------------------------------------------------------
(* C8 *)

\* C8: when the lookup found no entry and the loader returns cacheable=false,
\* wrapCacheable returns the loader's value with status BYPASS and writes nothing:
\* no step of the call changes the cache contents.
C8_UncacheableMissWritesNothing ==
    [][\A r \in CReqSlots :
        /\ (creq[r].pc = "load" /\ creq'[r].loaded = "uncacheable") =>
                /\ creq'[r].pc = "done"
                /\ creq'[r].status = "BYPASS"
                /\ creq'[r].sets = 0
                /\ cache' = cache
        /\ (creq[r].pc \in {"idle", "lookup"} /\ creq'[r] # creq[r]) => cache' = cache]_vars

\* A call that found no entry was answered BYPASS and the key still has no entry
C8_Witness ==
    \E r \in CReqSlots :
        /\ creq[r].pc = "done" /\ creq[r].status = "BYPASS"
        /\ creq[r].loaded = "uncacheable" /\ creq[r].gets = 1 /\ creq[r].loads = 1
        /\ cache[creq[r].key] = {}

-----------------------------------------------------------------------------
(* C9 *)

\* The step in which refresh i ends
RefreshEnds(i) == refreshes[i].pc = "loading" /\ refreshes'[i].pc = "none"

\* C9 as stated: after a background refresh whose loader returned cacheable=false,
\* the entry of the key is no longer present.
C9_UncacheableRefreshDestroysEntry ==
    [][\A i \in RefreshIds :
        (RefreshEnds(i) /\ refreshes'[i].loaded = "uncacheable")
        => cache'[refreshes[i].key] = {}]_vars

\* C9 amended: a background refresh whose loader returned cacheable=false writes
\* and deletes nothing: the entry of the key is left as it was, and stays until
\* its backing TTL runs out, it is invalidated or a later write replaces it, so
\* later requests still receive the old cached value.
C9_UncacheableRefreshKeepsEntry ==
    [][\A i \in RefreshIds :
        (RefreshEnds(i) /\ refreshes'[i].loaded = "uncacheable") => cache' = cache]_vars

\* After a refresh that was answered cacheable=false the stale entry is present
C9_Witness ==
    \E i \in RefreshIds :
        /\ refreshes[i].pc = "none" /\ refreshes[i].loaded = "uncacheable"
        /\ cache[refreshes[i].key] # {}
        /\ PastStaleUntil(TheValue(cache[refreshes[i].key]))

-----------------------------------------------------------------------------
(* C10 *)

\* C10: in fallback mode (no store, or the store is the fallback store)
\* wrapCacheable calls the loader exactly once and returns its value with status
\* BYPASS (or fails with the loader), whatever the loader says about cacheability;
\* it reads nothing from the cache and writes nothing to it.
C10_FallbackIsPassThrough ==
    storeKind \in {"noop", "none"} =>
        /\ \A key \in CacheKeys : cache[key] = {}
        /\ \A r \in CReqSlots :
            /\ creq[r].gets = 0 /\ creq[r].sets = 0
            /\ creq[r].pc \notin {"lookup", "load"}
            /\ creq[r].pc = "passthrough" => creq[r].loads = 1
            /\ creq[r].pc = "done" =>
                /\ creq[r].loads = 1
                /\ \/ creq[r].status = "BYPASS" /\ creq[r].loaded \in {"cacheable", "uncacheable"}
                   \/ creq[r].status = "ERROR" /\ creq[r].loaded = "rejected"

\* With the fallback store a cacheable response was passed through as BYPASS
C10_Witness ==
    \E r \in CReqSlots :
        /\ storeKind = "noop"
        /\ creq[r].pc = "done" /\ creq[r].status = "BYPASS" /\ creq[r].loaded = "cacheable"
        /\ creq[r].loads = 1 /\ creq[r].gets = 0 /\ creq[r].sets = 0

-----------------------------------------------------------------------------
(* C11 *)

\* C11: when the cache write after the load of a miss fails, wrapCacheable still
\* returns the loader's value unchanged, with the status downgraded from MISS to
\* BYPASS; the call ends normally (the failure is not thrown) and the store is
\* left as it was.
C11_FailedWriteDowngradesToBypass ==
    [][\A r \in CReqSlots, result \in LoaderResults :
        (creq[r].pc = "load" /\ LoaderReturns(r, result, FALSE))
        => /\ creq'[r].pc = "done"
           /\ creq'[r].status = "BYPASS"
           /\ creq'[r].value = result.value
           /\ creq'[r].loaded = "cacheable"
           /\ cache' = cache]_vars

\* A call over the Redis store loaded a cacheable response, tried to write it and
\* was answered BYPASS with the loaded value
C11_Witness ==
    \E r \in CReqSlots :
        /\ storeKind = "redis"
        /\ creq[r].pc = "done" /\ creq[r].status = "BYPASS"
        /\ creq[r].loaded = "cacheable" /\ creq[r].sets = 1 /\ creq[r].loads = 1
        /\ creq[r].value \in Values

-----------------------------------------------------------------------------
(* C12 *)

\* The refresh i ends in a failure: its loader rejected, or the write of its
\* cacheable result failed
RefreshFails(i) ==
    \E result \in LoaderResults :
        \/ ~result.ok /\ RefreshReturns(i, result, TRUE)
        \/ RefreshReturns(i, result, FALSE)

\* C12: a failure of the background refresh (its loader throws or its write
\* fails) is swallowed: the refresh ends, no call of wrapCacheable is changed by
\* it (the STALE response already returned stays as it was and no call ends in an
\* error), and the entry of the key is left unchanged.
C12_RefreshFailureIsSwallowed ==
    [][\A i \in RefreshIds :
        RefreshFails(i)
        => /\ refreshes'[i].pc = "none"
           /\ creq' = creq
           /\ cache' = cache]_vars

\* A refresh has ended with a rejected loader while the request it was started by
\* still holds its STALE answer, and the stale entry is still stored
C12_Witness ==
    \E i \in RefreshIds, r \in CReqSlots :
        /\ refreshes[i].pc = "none" /\ refreshes[i].loaded = "rejected"
        /\ creq[r].pc = "done" /\ creq[r].status = "STALE"
        /\ creq[r].key = refreshes[i].key
        /\ cache[creq[r].key] # {}
        /\ creq[r].value = StoredFor(r).value

-----------------------------------------------------------------------------
(* SpecForward: ProxyService.forward, the routing of a call between the upstream *)
(* and the cache                                                               *)

MaxForwards == 2

\* ProxyService.parseBypassPaths: the entries of CACHE_BYPASS_PATHS, trimmed, the
\* empty ones dropped ({} for a value that is not a string)
parseBypassPaths(value) ==
    IF value = {} THEN {}
    ELSE LET entries == Split(TheValue(value), ",")
         IN  {Trim(entries[i]) : i \in 1..Len(entries)} \ {<<>>}

\* Values of CACHE_BYPASS_PATHS
FwdBypassConfigs ==
    { {}, {<<>>}, {<<"/", "a">>}, {<<"/", "a", "/">>}, {<<" ", "a", ",">>}, {<<"/">>},
      {<<"/", "x", ",", "/", "a", "/", "b">>} }

\* Paths with query handed to forward
FwdPaths ==
    { <<"/">>, <<"/", "a">>, <<"/", "a", "/">>, <<"/", "a", "/", "b">>, <<"/", "a", "b">>,
      <<"/", "a", "?", "x">>, <<"/", "b">> }

\* options?.headers
FwdHeaders ==
    { {}, {(H_Accept :> <<"j">>)}, {(H_Authorization :> <<"t">>)},
      {(H_Authorization :> <<" ">>)}, {(H_Authorization :> <<>>)},
      {(H_Authorization :> <<" ", "t">> @@ H_Accept :> <<"j">>)} }

\* How forward serves the call: "direct" (not a GET), "bypass" or "cache"
RouteOf(method, path, headers, config) ==
    IF method # GET THEN "direct"
    ELSE IF shouldBypassProxyCache(headers, stripQuery(path), parseBypassPaths(config))
    THEN "bypass"
    ELSE "cache"

ForwardInit ==
    /\ KeyIdle
    /\ PipeIdle
    /\ CacheIdle
    /\ now = 0
    /\ pol = <<>>
    /\ lim = <<>> /\ reg = <<>> /\ adm = <<>> /\ htp = <<>> /\ gad = <<>>
    /\ \E method \in {GET, POST}, path \in FwdPaths, headers \in FwdHeaders,
          config \in FwdBypassConfigs :
            fwd = [pc |-> "idle", method |-> method, path |-> path, headers |-> headers,
                   config |-> config, route |-> "none", requests |-> 0, upstreamCalls |-> 0,
                   wrapCalls |-> 0, cacheStatus |-> "none"]

\* forward is called (again, with the same arguments)
ForwardCall ==
    LET route == RouteOf(fwd.method, fwd.path, fwd.headers, fwd.config)
    IN  /\ fwd.pc \in {"idle", "returned"}
        /\ fwd.requests < MaxForwards
        /\ fwd' = [fwd EXCEPT !.route = route,
                               !.requests = @ + 1,
                               !.cacheStatus = "none",
                               !.wrapCalls = IF route = "cache" THEN @ + 1 ELSE @,
                               !.pc = IF route = "cache" THEN "wrap" ELSE "upstream"]
        /\ UNCHANGED <<keyVars, now, pipeVars, cacheVars, pol, lim, reg, adm, htp, gad>>

\* httpClientService.requestRaw of a direct or bypassed call settles
ForwardUpstreamReturns(ok) ==
    /\ fwd.pc = "upstream"
    /\ fwd' = [fwd EXCEPT !.upstreamCalls = @ + 1,
                           !.cacheStatus = IF ~ok THEN "ERROR"
                                           ELSE IF fwd.route = "bypass" THEN "BYPASS"
                                           ELSE "none",
                           !.pc = "returned"]
    /\ UNCHANGED <<keyVars, now, pipeVars, cacheVars, pol, lim, reg, adm, htp, gad>>

\* cacheService.wrapCacheable settles: with a status, the loader (requestRaw) having
\* been called for every status but HIT, or with the loader's rejection
ForwardWrapReturns(status, ok) ==
    /\ fwd.pc = "wrap"
    /\ ~ok => status \in {"MISS", "BYPASS"}
    /\ fwd' = [fwd EXCEPT !.upstreamCalls = IF status = "HIT" THEN @ ELSE @ + 1,
                           !.cacheStatus = IF ok THEN status ELSE "ERROR",
                           !.pc = "returned"]
    /\ UNCHANGED <<keyVars, now, pipeVars, cacheVars, pol, lim, reg, adm, htp, gad>>

ForwardNext ==
    \/ ForwardCall
    \/ \E ok \in BOOLEAN : ForwardUpstreamReturns(ok)
    \/ \E status \in CacheStatuses, ok \in BOOLEAN : ForwardWrapReturns(status, ok)

SpecForward == ForwardInit /\ [][ForwardNext]_vars

-----------------------------------------------------------------------------
(* C13 *)

\* The authorization header of the call, <<>> when there is none
FwdAuthorization ==
    IF fwd.headers # {} /\ H_Authorization \in DOMAIN TheValue(fwd.headers)
    THEN TheValue(fwd.headers)[H_Authorization]
    ELSE <<>>

\* The path with the query stripped
FwdBasePath == Split(fwd.path, "?")[1]

\* Leading slash enforced, trailing slashes removed, "/" for what is left empty
SlashNormal(p) ==
    LET lead == IF p # <<>> /\ p[1] = "/" THEN p ELSE <<"/">> \o p
        last == IF \E i \in 1..Len(lead) : lead[i] # "/"
                THEN CHOOSE i \in 1..Len(lead) :
                        lead[i] # "/" /\ \A j \in (i + 1)..Len(lead) : lead[j] = "/"
                ELSE 0
    IN  IF last = 0 THEN <<"/">> ELSE SubSeq(lead, 1, last)

\* A bypassed GET calls the upstream itself on every call, never asks the cache,
\* and is tagged BYPASS when the upstream answered
BypassedGoesUpstream ==
    fwd.route = "bypass" =>
        /\ fwd.wrapCalls = 0
        /\ fwd.pc = "upstream" => fwd.upstreamCalls = fwd.requests - 1
        /\ fwd.pc = "returned" =>
                /\ fwd.upstreamCalls = fwd.requests
                /\ fwd.cacheStatus \in {"BYPASS", "ERROR"}

-----------------------------------------------------------------------------
(* proxy/proxy-cache.ts: deriveProxyCachePolicy *)

\* A directive's value: the bare token (true) or the text after "="
BareDirective == [bare |-> TRUE, text |-> <<>>]

TextDirective(text) == [bare |-> FALSE, text |-> text]

\* JavaScript truthiness of a directive value: true, or a non-empty string
Truthy(value) == value.bare \/ value.text # <<>>

\* rawValue.trim().replace(/^"|"$/g, '')
StripQuotes(text) ==
    LET front == IF text # <<>> /\ text[1] = "\"" THEN Tail(text) ELSE text
    IN  IF front # <<>> /\ front[Len(front)] = "\"" THEN SubSeq(front, 1, Len(front) - 1)
        ELSE front

RECURSIVE ReduceDirectives(_, _)
\* The reduce of parseCacheControl over the trimmed, non-empty parts, from the left:
\* a later directive of the same name replaces an earlier one
ReduceDirectives(parts, acc) ==
    IF parts = <<>> THEN acc
    ELSE LET pieces == Split(Head(parts), "=")
             directive == pieces[1]
             key == Lower(Trim(directive))
             next == IF directive = <<>> \/ key = <<>> THEN acc
                     ELSE IF Len(pieces) = 1 THEN (key :> BareDirective) @@ acc
                     ELSE (key :> TextDirective(StripQuotes(Trim(pieces[2])))) @@ acc
         IN  ReduceDirectives(Tail(parts), next)

\* parseCacheControl: header is the optional cache-control header ({} for undefined)
parseCacheControl(header) ==
    IF header = {} \/ TheValue(header) = <<>> THEN <<>>
    ELSE LET split == Split(TheValue(header), ",")
             trimmed == [i \in 1..Len(split) |-> Trim(split[i])]
             parts == SelectSeq(trimmed, LAMBDA part : part # <<>>)
         IN  ReduceDirectives(parts, <<>>)

DecimalDigits == {"0", "1", "2", "3", "4", "5", "6", "7", "8", "9"}

DigitValue(c) == CHOOSE d \in 0..9 : HexSeq[d + 1] = c

RECURSIVE DigitsValue(_)
DigitsValue(digits) ==
    IF digits = <<>> THEN 0
    ELSE DigitsValue(SubSeq(digits, 1, Len(digits) - 1)) * 10 + DigitValue(digits[Len(digits)])

\* Math.floor(Number(text)) for the decimal forms [+-]digits[.digits] and for the
\* empty string (Number('') is 0); {} for a text Number() turns into NaN
FloorOfNumber(text) ==
    LET t == Trim(text)
        negative == t # <<>> /\ t[1] = "-"
        unsigned == IF t # <<>> /\ t[1] \in {"-", "+"} THEN Tail(t) ELSE t
        pieces == Split(unsigned, ".")
        whole == pieces[1]
        fraction == IF Len(pieces) = 2 THEN pieces[2] ELSE <<>>
        wellFormed == /\ Len(pieces) <= 2
                      /\ whole \o fraction # <<>>
                      /\ \A i \in 1..Len(whole) : whole[i] \in DecimalDigits
                      /\ \A i \in 1..Len(fraction) : fraction[i] \in DecimalDigits
        hasFraction == \E i \in 1..Len(fraction) : fraction[i] # "0"
    IN  IF t = <<>> THEN {0}
        ELSE IF ~wellFormed THEN {}
        ELSE IF negative
        THEN {0 - DigitsValue(whole) - (IF hasFraction THEN 1 ELSE 0)}
        ELSE {DigitsValue(whole)}

\* parseCacheControlNumber of the directive `name` of a parsed header
parseCacheControlNumber(cacheControl, name) ==
    IF name \notin DOMAIN cacheControl \/ cacheControl[name].bare THEN {}
    ELSE FloorOfNumber(cacheControl[name].text)

D_SMaxAge == <<"s", "-", "m", "a", "x", "a", "g", "e">>

D_MaxAge == <<"m", "a", "x", "-", "a", "g", "e">>

resolveTtlSeconds(cacheControl) ==
    LET sMaxAge == parseCacheControlNumber(cacheControl, D_SMaxAge)
    IN  IF sMaxAge # {} THEN sMaxAge ELSE parseCacheControlNumber(cacheControl, D_MaxAge)

\* CACHE_CONTROL_NO_STORE
CacheControlNoStore == {<<"n", "o", "-", "s", "t", "o", "r", "e">>, <<"p", "r", "i", "v", "a", "t", "e">>}

\* A version that looks at the cache-control header before the status.
deriveProxyCachePolicyHeaderFirst(status, header, ignoreUpstreamControl) ==
    LET cacheControl == parseCacheControl(header)
        ttlSeconds == resolveTtlSeconds(cacheControl)
    IN  IF ignoreUpstreamControl THEN [cacheable |-> TRUE, ttlSeconds |-> {}]
        ELSE IF status = 204 \/ status = 304 THEN [cacheable |-> FALSE, ttlSeconds |-> {}]
        ELSE IF status < 200 \/ status >= 300 THEN [cacheable |-> FALSE, ttlSeconds |-> {}]
        ELSE IF \E directive \in CacheControlNoStore :
                    directive \in DOMAIN cacheControl /\ Truthy(cacheControl[directive])
        THEN [cacheable |-> FALSE, ttlSeconds |-> {}]
        ELSE IF ttlSeconds # {} /\ TheValue(ttlSeconds) <= 0
        THEN [cacheable |-> FALSE, ttlSeconds |-> {}]
        ELSE [cacheable |-> TRUE, ttlSeconds |-> ttlSeconds]

\* deriveProxyCachePolicy(response, options): status and cache-control header of the
\* response, options?.ignoreUpstreamControl
deriveProxyCachePolicy(status, header, ignoreUpstreamControl) ==
    LET cacheControl == parseCacheControl(header)
        ttlSeconds == resolveTtlSeconds(cacheControl)
    IN  IF status = 204 \/ status = 304 THEN [cacheable |-> FALSE, ttlSeconds |-> {}]
        ELSE IF status < 200 \/ status >= 300 THEN [cacheable |-> FALSE, ttlSeconds |-> {}]
        ELSE IF ignoreUpstreamControl THEN [cacheable |-> TRUE, ttlSeconds |-> {}]
        ELSE IF \E directive \in CacheControlNoStore :
                    directive \in DOMAIN cacheControl /\ Truthy(cacheControl[directive])
        THEN [cacheable |-> FALSE, ttlSeconds |-> {}]
        ELSE IF ttlSeconds # {} /\ TheValue(ttlSeconds) <= 0
        THEN [cacheable |-> FALSE, ttlSeconds |-> {}]
        ELSE [cacheable |-> TRUE, ttlSeconds |-> ttlSeconds]

-----------------------------------------------------------------------------
(* SpecPolicy: the loader of ProxyService.forward on a cache miss: the upstream's *)
(* response, the policy derived from it, and the write wrapCacheable makes of it  *)

\* Statuses of upstream responses
PolStatuses == {100, 199, 200, 201, 204, 206, 299, 300, 304, 404, 500}

\* response.headers['cache-control'] ({} when the upstream sent none)
PolHeaders ==
    { {},
      {<<>>},
      {<<"n", "o", "-", "s", "t", "o", "r", "e">>},
      {<<"N", "O", "-", "S", "T", "O", "R", "E">>},
      {<<" ", "p", "r", "i", "v", "a", "t", "e", " ", ",", " ", "m", "a", "x", "-", "a", "g", "e", "=", "6", "0">>},
      {<<"m", "a", "x", "-", "a", "g", "e", "=", "6", "0", ",", "n", "o", "-", "s", "t", "o", "r", "e">>},
      {<<"s", "-", "m", "a", "x", "a", "g", "e", "=", "6", "0", ",", " ", "p", "r", "i", "v", "a", "t", "e">>},
      {<<"p", "r", "i", "v", "a", "t", "e", "=", "\"", "x", "\"">>},
      {<<"p", "r", "i", "v", "a", "t", "e", "=", "\"", "\"">>},
      {<<"n", "o", "-", "s", "t", "o", "r", "e", "=">>},
      {<<"n", "o", "-", "s", "t", "o", "r", "e", ",", " ", "n", "o", "-", "s", "t", "o", "r", "e", "=">>},
      {<<"m", "a", "x", "-", "a", "g", "e", "=", "6", "0">>},
      {<<"m", "a", "x", "-", "a", "g", "e", "=", "0">>},
      {<<"s", "-", "m", "a", "x", "a", "g", "e", "=", "0", ",", " ", "m", "a", "x", "-", "a", "g", "e", "=", "6", "0">>},
      {<<"m", "a", "x", "-", "a", "g", "e", "=", "-", "1">>},
      {<<"m", "a", "x", "-", "a", "g", "e", "=", "1", ".", "5">>},
      {<<"m", "a", "x", "-", "a", "g", "e", "=", "x", ",", " ", "p", "u", "b", "l", "i", "c">>},
      {<<"m", "a", "x", "-", "a", "g", "e", "=">>} }

\* The CacheableResult the loader of forward returns for the response
PolLoaderResult ==
    [ok |-> TRUE, value |-> "v1", cacheable |-> pol.policy.cacheable,
     ttl |-> pol.policy.ttlSeconds, staleTtl |-> {}]

PolicyInit ==
    /\ KeyIdle
    /\ PipeIdle
    /\ now = 0
    /\ fwd = <<>>
    /\ lim = <<>> /\ reg = <<>> /\ adm = <<>> /\ htp = <<>> /\ gad = <<>>
    /\ storeKind = "redis"
    /\ cache = [k \in CacheKeys |-> {}]
    /\ lastWrite = <<>> /\ creq = <<>> /\ refreshes = <<>>
    /\ \E status \in PolStatuses, header \in PolHeaders, ignore \in BOOLEAN :
            pol = [pc |-> "response", status |-> status, header |-> header,
                   ignoreUpstreamControl |-> ignore,
                   policy |-> [cacheable |-> FALSE, ttlSeconds |-> {}], stored |-> FALSE]

\* The loader derives the policy of the response
PolicyDerive ==
    /\ pol.pc = "response"
    /\ pol' = [pol EXCEPT !.policy = deriveProxyCachePolicy(pol.status, pol.header,
                                                            pol.ignoreUpstreamControl),
                           !.pc = "decided"]
    /\ UNCHANGED <<keyVars, now, pipeVars, cacheVars, fwd, lim, reg, adm, htp, gad>>

\* wrapCacheable, miss path, with the loader's result: it stores a cacheable one
PolicyStore(key, setOk) ==
    /\ pol.pc = "decided"
    /\ ~setOk => pol.policy.cacheable
    /\ cache' = StoreAfterLoad(key, PolLoaderResult, setOk)
    /\ pol' = [pol EXCEPT !.stored = Written(PolLoaderResult, setOk), !.pc = "done"]
    /\ UNCHANGED <<keyVars, now, pipeVars, fwd, lim, reg, adm, htp, gad, storeKind, lastWrite, creq, refreshes>>

PolicyNext ==
    \/ PolicyDerive
    \/ \E key \in CacheKeys, setOk \in BOOLEAN : PolicyStore(key, setOk)

SpecPolicy == PolicyInit /\ [][PolicyNext]_vars

-----------------------------------------------------------------------------
(* C14 *)

\* The policy of the response has been derived
PolDecided == pol.pc \in {"decided", "done"}

\* C14: for every upstream response whose status is outside [200,300), and for
\* status 204, deriveProxyCachePolicy returns cacheable=false, whatever the
\* cache-control header says and also when ignoreUpstreamControl is true; the
\* response is not written to the cache.
C14_NonSuccessNeverCacheable ==
    (PolDecided /\ (pol.status < 200 \/ pol.status >= 300 \/ pol.status = 204)) =>
        /\ ~pol.policy.cacheable
        /\ pol.policy.ttlSeconds = {}
        /\ ~pol.stored
        /\ \A key \in CacheKeys : cache[key] = {}

\* A 204 with max-age=60 under ignoreUpstreamControl went through the miss path
\* and nothing was stored
C14_Witness ==
    /\ pol.pc = "done" /\ pol.status = 204 /\ pol.ignoreUpstreamControl
    /\ pol.header = {<<"m", "a", "x", "-", "a", "g", "e", "=", "6", "0">>}
    /\ ~pol.policy.cacheable /\ ~pol.stored
    /\ \A key \in CacheKeys : cache[key] = {}

-----------------------------------------------------------------------------
(* C15 *)

\* The cache-control header of the response names the directive no-store or private
PolNamesNoStore ==
    \E directive \in CacheControlNoStore : directive \in DOMAIN parseCacheControl(pol.header)

\* C15: for every 2xx response whose cache-control contains no-store or private,
\* deriveProxyCachePolicy returns cacheable=false when ignoreUpstreamControl is
\* false, also when the header carries a positive max-age or s-maxage, and returns
\* cacheable with no TTL set when ignoreUpstreamControl is true.
C15_NoStoreAndPrivateNotCacheable ==
    (PolDecided /\ pol.status >= 200 /\ pol.status < 300 /\ PolNamesNoStore) =>
        IF pol.ignoreUpstreamControl
        THEN pol.policy.cacheable /\ pol.policy.ttlSeconds = {}
        ELSE ~pol.policy.cacheable

-----------------------------------------------------------------------------
(* C16 *)

\* The headers of the call with the api_key replaced by another value
WithApiKey(value) == ("api_key" :> value) @@ kHeaders

\* The headers of the call with one header replaced by another value
WithHeader(name, value) == (name :> value) @@ kHeaders

\* The other letter case of a letter
SwapCase(c) ==
    CASE c = "j" -> "J" [] c = "J" -> "j" [] c = "d" -> "D" [] c = "D" -> "d"
      [] c = "e" -> "E" [] c = "E" -> "e" [] OTHER -> c

\* A header value in other letter cases and with whitespace around it
CaseAndSpaceVariants(v) ==
    LET swapped == [i \in 1..Len(v) |-> SwapCase(v[i])]
    IN  {v, swapped, <<" ">> \o v, v \o <<" ">>, <<" ">> \o swapped \o <<" ">>, Trim(v)}

\* Building the key again from the same inputs gives the same key
KeyIsDeterministic == kKey = buildProxyCacheKey(kMethod, kPath, kHeaders)

\* Changing only the letter case or the surrounding whitespace of accept or
\* accept-language does not change the key
KeyIgnoresAcceptCase ==
    \A name \in {"accept", "accept-language"} \cap DOMAIN kHeaders :
        \A v \in CaseAndSpaceVariants(kHeaders[name]) :
            buildProxyCacheKey(kMethod, kPath, WithHeader(name, v)) = kKey

\* C16 as stated: the key is deterministic, changing only the api_key value
\* (including only its letter case) changes the key, and changing only the letter
\* case or surrounding whitespace of accept or accept-language does not.
C16_KeyChangesWithApiKey ==
    kPc = "built" =>
        /\ KeyIsDeterministic
        /\ "api_key" \in DOMAIN kHeaders =>
                \A other \in KeyHeaderValues("api_key") :
                    other # kHeaders["api_key"] =>
                        buildProxyCacheKey(kMethod, kPath, WithApiKey(other)) # kKey
        /\ KeyIgnoresAcceptCase

\* C16 amended: the key is deterministic; changing only the api_key changes the
\* key exactly when the two values differ after trimming surrounding whitespace
\* (a difference in letter case alone counts, a difference in surrounding
\* whitespace alone does not, and a blank api_key is the same as an empty one);
\* changing only the letter case or surrounding whitespace of accept or
\* accept-language does not change the key.
C16_KeyChangesWithTrimmedApiKey ==
    kPc = "built" =>
        /\ KeyIsDeterministic
        /\ "api_key" \in DOMAIN kHeaders =>
                \A other \in KeyHeaderValues("api_key") :
                    (Trim(other) # Trim(kHeaders["api_key"]))
                        <=> (buildProxyCacheKey(kMethod, kPath, WithApiKey(other)) # kKey)
        /\ KeyIgnoresAcceptCase

\* A key built for api_key "k" and accept " J": it differs from the key for "K",
\* equals the key for " k" and the key for accept "j"
C16_Witness ==
    /\ kPc = "built"
    /\ "api_key" \in DOMAIN kHeaders /\ kHeaders["api_key"] = <<"k">>
    /\ "accept" \in DOMAIN kHeaders /\ kHeaders["accept"] = <<" ", "J">>
    /\ "accept-language" \in DOMAIN kHeaders
    /\ buildProxyCacheKey(kMethod, kPath, WithApiKey(<<"K">>)) # kKey
    /\ buildProxyCacheKey(kMethod, kPath, WithApiKey(<<" ", "k">>)) = kKey
    /\ buildProxyCacheKey(kMethod, kPath, WithHeader("accept", <<"j">>)) = kKey

-----------------------------------------------------------------------------
(* api-keys/api-keys.service.ts: concurrent calls of consumeRateLimitForIdentifier.
   A call is cut at its awaits: the INCR (issued with the window the call computed
   from Date.now()), the EXPIRE of the call whose INCR returned 1, and the return
   to the guard. Other calls and the clock run in between. *)

MaxLimCalls == 3

MaxLimTicks == 5

LimTickMs == MsPerSecond \div 2

LimSlots == 1..2

\* The (scope, identifier) pairs the guard consumes for
LimCallers == {<<"key", KeyIdentifier("id1")>>,
               <<"preauth", buildPreAuthIdentifier({"10.0.0.1"}, {})>>}

NoLimit == [allowed |-> FALSE, limit |-> 0, remaining |-> 0, retryAfter |-> 0, resetAt |-> 0]

IdleCall == [pc |-> "idle", caller |-> <<"", <<"", "">>>>, counterKey |-> <<>>,
             nowSeconds |-> 0, windowStart |-> 0, count |-> 0, rank |-> 0,
             result |-> NoLimit, status |-> 0]

\* EXPIRE counterKey (windowSeconds + 1): the TTL runs from the moment the store
\* executes the command
CountersAfterExpire(counterKey) ==
    [k \in DOMAIN rlCounters |->
        IF k = counterKey
        THEN [rlCounters[k] EXCEPT !.hasTtl = TRUE,
                    !.expiresAt = now + (RateLimitWindowSeconds + 1) * MsPerSecond]
        ELSE rlCounters[k]]

\* The history of a counter key: INCRs executed (a call's rank is the number of its
\* INCR among them), and calls that returned allowed or rejected
NoHistory == [hits |-> 0, allowed |-> 0, rejected |-> 0]

HistoryOf(counterKey) ==
    IF counterKey \in DOMAIN lim.history THEN lim.history[counterKey] ELSE NoHistory

HistoryWith(counterKey, entry) ==
    [k \in DOMAIN lim.history \cup {counterKey} |->
        IF k = counterKey THEN entry ELSE lim.history[k]]

LimitInit ==
    /\ KeyIdle
    /\ CacheIdle
    /\ fwd = <<>> /\ pol = <<>> /\ reg = <<>> /\ adm = <<>> /\ htp = <<>> /\ gad = <<>>
    /\ now = 0
    /\ keyRecords = <<>> /\ hashIndex = <<>> /\ req = <<>> /\ arrivals = 0
    /\ rlCounters = <<>>
    /\ lim = [calls |-> [i \in LimSlots |-> IdleCall], started |-> 0, history |-> <<>>]

LimUnchanged == UNCHANGED <<keyVars, cacheVars, fwd, pol, reg, adm, htp, gad, keyRecords, hashIndex, req, arrivals>>

\* Lines 178-184: the window of Date.now(), the counter key, and INCR. A store that
\* rejects the command makes the call throw.
ConsumeIncr(i, caller, ok) ==
    LET counterKey == rateLimitKey(caller[1], caller[2], WindowStart)
        count == IncrCount(counterKey)
    IN  /\ lim.calls[i].pc = "idle"
        /\ lim.started < MaxLimCalls
        /\ rlCounters' = IF ok THEN CountersAfter(counterKey, FALSE) ELSE rlCounters
        /\ lim' = [lim EXCEPT
                    !.started = @ + 1,
                    !.history = IF ok
                                THEN HistoryWith(counterKey,
                                        [HistoryOf(counterKey) EXCEPT !.hits = @ + 1])
                                ELSE @,
                    !.calls[i] = IF ok
                                 THEN [pc |-> IF count = 1 THEN "expire" ELSE "return",
                                       caller |-> caller, counterKey |-> counterKey,
                                       nowSeconds |-> NowSeconds, windowStart |-> WindowStart,
                                       count |-> count,
                                       rank |-> HistoryOf(counterKey).hits + 1,
                                       result |-> RateLimitResult(count), status |-> 0]
                                 ELSE [IdleCall EXCEPT !.pc = "done", !.caller = caller,
                                            !.counterKey = counterKey,
                                            !.nowSeconds = NowSeconds,
                                            !.windowStart = WindowStart, !.status = 503]]
        /\ UNCHANGED now
        /\ LimUnchanged

\* Lines 186-188: EXPIRE by the call whose INCR returned 1. A store that rejects the
\* command makes the call throw, and the guard answers 503.
ConsumeExpire(i, ok) ==
    /\ lim.calls[i].pc = "expire"
    /\ rlCounters' = IF ok THEN CountersAfterExpire(lim.calls[i].counterKey) ELSE rlCounters
    /\ lim' = [lim EXCEPT !.calls[i] =
                    IF ok THEN [@ EXCEPT !.pc = "return"]
                    ELSE [@ EXCEPT !.pc = "done", !.result = NoLimit, !.status = 503]]
    /\ UNCHANGED now
    /\ LimUnchanged

\* Lines 190-197 and the guard's use of the result (proxy-access.guard.ts:54-59):
\* 429 with retry-after when the result is not allowed
ConsumeReturn(i) ==
    LET call == lim.calls[i]
        old == HistoryOf(call.counterKey)
    IN  /\ call.pc = "return"
        /\ lim' = [lim EXCEPT
                    !.history = HistoryWith(call.counterKey,
                                    IF call.result.allowed
                                    THEN [old EXCEPT !.allowed = @ + 1]
                                    ELSE [old EXCEPT !.rejected = @ + 1]),
                    !.calls[i] = [@ EXCEPT !.pc = "done",
                                    !.status = IF call.result.allowed THEN 200 ELSE 429]]
        /\ UNCHANGED <<now, rlCounters>>
        /\ LimUnchanged

\* The response is sent; the slot takes the next call
LimRelease(i) ==
    /\ lim.calls[i].pc = "done"
    /\ lim' = [lim EXCEPT !.calls[i] = IdleCall]
    /\ UNCHANGED <<now, rlCounters>>
    /\ LimUnchanged

\* The clock advances; the store drops the counters whose TTL has run out
LimTick ==
    /\ now < MaxLimTicks * LimTickMs
    /\ now' = now + LimTickMs
    /\ rlCounters' = [k \in {c \in DOMAIN rlCounters :
                                ~(rlCounters[c].hasTtl /\ rlCounters[c].expiresAt <= now')}
                        |-> rlCounters[k]]
    /\ UNCHANGED lim
    /\ LimUnchanged

LimitNext ==
    \/ \E i \in LimSlots, caller \in LimCallers, ok \in BOOLEAN : ConsumeIncr(i, caller, ok)
    \/ \E i \in LimSlots, ok \in BOOLEAN : ConsumeExpire(i, ok)
    \/ \E i \in LimSlots : ConsumeReturn(i)
    \/ \E i \in LimSlots : LimRelease(i)
    \/ LimTick

SpecLimit == LimitInit /\ [][LimitNext]_vars

-----------------------------------------------------------------------------
(* C17 *)

ReturnedCalls == {i \in LimSlots : lim.calls[i].pc = "done" /\ lim.calls[i].status # 503}

\* C17: for every interleaving of concurrent consume calls on one (scope, identifier)
\* in one window, at most maxRequests of them return allowed = true: a call that
\* returns is allowed exactly when its INCR was among the first maxRequests of the
\* window, and every further call is answered 429 with retry-after >= 1.
C17_AtMostMaxRequestsAllowed ==
    /\ \A k \in DOMAIN lim.history : lim.history[k].allowed <= RateLimitMaxRequests
    /\ \A i \in ReturnedCalls :
        LET call == lim.calls[i]
        IN  /\ call.result.allowed <=> call.rank <= RateLimitMaxRequests
            /\ call.rank > RateLimitMaxRequests =>
                    /\ call.status = 429
                    /\ call.result.retryAfter >= 1
            /\ call.rank <= RateLimitMaxRequests => call.status = 200

\* Two calls on one counter key are in flight together: the second was rejected
\* with 429 while the first, whose INCR returned 1, has not yet set the expiry
C17_Witness ==
    \E i, j \in LimSlots :
        /\ i # j
        /\ lim.calls[i].counterKey = lim.calls[j].counterKey
        /\ lim.calls[i].pc = "expire" /\ lim.calls[i].rank = 1
        /\ lim.calls[j].pc = "done" /\ lim.calls[j].status = 429
        /\ lim.calls[j].rank > RateLimitMaxRequests
        /\ lim.calls[j].result.retryAfter >= 1
        /\ HistoryOf(lim.calls[j].counterKey).allowed <= RateLimitMaxRequests

-----------------------------------------------------------------------------
(* C18 *)

\* The calls whose INCR has been executed and that have not thrown
CountedCalls == {i \in LimSlots : lim.calls[i].pc \in {"expire", "return"}} \cup ReturnedCalls

\* The counter keys of the same (scope, identifier) whose window had ended when the
\* call read the clock
EarlierWindowsOf(call) ==
    {k \in DOMAIN lim.history :
        /\ <<k[1], <<k[2], k[3]>>>> = call.caller
        /\ k[4] + RateLimitWindowSeconds <= call.nowSeconds}

\* C18: a consume call returns allowed = (count <= maxRequests), remaining =
\* max(0, maxRequests - count), resetAt = windowStart + windowSeconds and retryAfter =
\* max(1, resetAt - now), where windowStart is now rounded down to a multiple of
\* windowSeconds and count is the number of consume calls counted for that (scope,
\* identifier) in that window, this one included; so the first call at or after the
\* resetAt of an earlier window returns remaining = maxRequests - 1, whatever the
\* count of that earlier window was.
C18_ResultFollowsTheWindowCount ==
    \A i \in CountedCalls :
        LET call == lim.calls[i]
            result == call.result
        IN  /\ call.windowStart % RateLimitWindowSeconds = 0
            /\ call.windowStart <= call.nowSeconds
            /\ call.nowSeconds < call.windowStart + RateLimitWindowSeconds
            /\ call.counterKey = rateLimitKey(call.caller[1], call.caller[2], call.windowStart)
            /\ call.count = call.rank
            /\ result.allowed <=> call.count <= RateLimitMaxRequests
            /\ result.limit = RateLimitMaxRequests
            /\ result.remaining = (IF call.count >= RateLimitMaxRequests THEN 0
                                   ELSE RateLimitMaxRequests - call.count)
            /\ result.resetAt = call.windowStart + RateLimitWindowSeconds
            /\ result.retryAfter = (IF result.resetAt - call.nowSeconds >= 1
                                    THEN result.resetAt - call.nowSeconds ELSE 1)
            /\ call.counterKey \notin EarlierWindowsOf(call)
            /\ call.rank = 1 => result.remaining = RateLimitMaxRequests - 1

\* The first call of a window returns remaining = maxRequests - 1 after the previous
\* window of the same caller went over its limit
C18_Witness ==
    \E i \in ReturnedCalls :
        LET call == lim.calls[i]
        IN  /\ call.rank = 1
            /\ call.windowStart > 0
            /\ call.result.allowed
            /\ call.result.remaining = RateLimitMaxRequests - 1
            /\ \E k \in EarlierWindowsOf(call) :
                    /\ lim.history[k].hits > RateLimitMaxRequests
                    /\ lim.history[k].rejected >= 1

-----------------------------------------------------------------------------
(* C19 *)

\* The calls that are between their INCR, which returned 1, and their EXPIRE
ExpirePending(counterKey) ==
    {i \in LimSlots : lim.calls[i].pc = "expire" /\ lim.calls[i].counterKey = counterKey}

\* C19: every counter key in the store carries an expiry, set by the call whose INCR
\* returned 1 and no later than windowSeconds + 1 seconds after the present, or that
\* call is still about to set it; no counter is left in the store without an expiry,
\* also when a store command of a consume call fails.
C19_EveryCounterCarriesExpiry ==
    \A k \in DOMAIN rlCounters :
        \/ /\ rlCounters[k].hasTtl
           /\ rlCounters[k].expiresAt <= now + (RateLimitWindowSeconds + 1) * MsPerSecond
        \/ ExpirePending(k) # {}

-----------------------------------------------------------------------------
(* C20 *)

Responses == {r \in ReqSlots : req[r].pc = "done"}

\* C20 as stated: every response to a proxy request carries x-ratelimit-limit,
\* x-ratelimit-remaining and x-ratelimit-reset, and a 429 response carries
\* retry-after as well.
C20_EveryResponseCarriesRateLimitHeaders ==
    \A r \in Responses :
        /\ req[r].rateHeaders # {}
        /\ req[r].status = 429 => req[r].retryAfter # {}

\* C20 amended: every response sent after a consume call returned (the request was
\* served, failed in the handler with 400, 415 or 502, or was rejected with 401 or
\* 429) carries x-ratelimit-limit = maxRequests, x-ratelimit-remaining and
\* x-ratelimit-reset from that call's result; exactly the 429 responses carry
\* retry-after, which is at least 1; the 503 sent when the key store failed carries
\* none of these headers.
C20_ResponsesAfterConsumeCarryRateLimitHeaders ==
    \A r \in Responses :
        /\ req[r].rateHeaders = {} <=> req[r].status = 503
        /\ req[r].retryAfter # {} <=> req[r].status = 429
        /\ \A limit \in req[r].rateHeaders :
            /\ limit.limit = RateLimitMaxRequests
            /\ limit.remaining \in 0..(RateLimitMaxRequests - 1)
            /\ limit.resetAt >= RateLimitWindowSeconds
            /\ limit.allowed <=> req[r].status # 429
            /\ \A retryAfter \in req[r].retryAfter :
                    retryAfter = limit.retryAfter /\ retryAfter >= 1

\* A request with a valid key was rejected by the per-key limit: its 429 carries
\* the three headers and retry-after
C20_Witness ==
    \E r \in Responses :
        /\ req[r].status = 429
        /\ req[r].consumer # {}
        /\ req[r].upstream = {}
        /\ req[r].rateHeaders # {}
        /\ TheValue(req[r].rateHeaders).remaining = 0
        /\ req[r].retryAfter = {TheValue(req[r].rateHeaders).retryAfter}

-----------------------------------------------------------------------------
(* api-keys/api-keys.service.ts: the key registry under concurrent admin operations.
   Every operation is cut at its awaits (one store command per step), so a revoke,
   activate or delete reads the record in one step and writes in a later one. *)

MaxRegOps == 4

MaxRegTicks == 1

MaxRegConsumes == 1

RegSlots == 1..2

AdminToken == <<"t", "1">>

\* generateApiKey: the key handed to the operator with the record of keyId
RawKeyOf(keyId) == IF keyId = "id1" THEN RawK1 ELSE RawK2

\* input.expiresAt of createApiKey
RegExpiries == {NoExpiry, ExpiresAt(MsPerSecond), [kind |-> "invalid", at |-> 0]}

\* x-api-key values presented for validation: absent, the keys that create hands
\* out (one with surrounding spaces), and a key nobody was given
RegPresented == {{}, {<<" ">> \o RawK1 \o <<" ">>}, {RawK2}, {RawK3}}

buildAdminIdentifier(ip, rawToken) ==
    LET normalizedIp == IF ip = {} \/ TheValue(ip) = "" THEN "unknown" ELSE TheValue(ip)
    IN  IF rawToken = {} \/ Len(Trim(TheValue(rawToken))) = 0
        THEN <<normalizedIp, "missing">>
        ELSE <<normalizedIp, "present">>

IdleOp == [pc |-> "idle", op |-> "none", keyId |-> "", raw |-> {}, read |-> {},
           readAt |-> 0, found |-> {}, result |-> {}, listed |-> {}]

RegistryInit ==
    /\ KeyIdle
    /\ CacheIdle
    /\ fwd = <<>> /\ pol = <<>> /\ lim = <<>> /\ adm = <<>> /\ htp = <<>> /\ gad = <<>>
    /\ now = 0
    /\ req = <<>> /\ arrivals = 0
    /\ rlCounters = <<>>
    /\ keyRecords = [k \in KeyIds |-> {}]
    /\ hashIndex = <<>>
    /\ reg = [index |-> {}, ops |-> [i \in RegSlots |-> IdleOp], started |-> 0,
              consumed |-> 0,
              issued |-> <<>>, last |-> [k \in KeyIds |-> "none"]]

RegUnchanged == UNCHANGED <<keyVars, cacheVars, fwd, pol, lim, adm, htp, gad, req, arrivals>>

RegStart(i) == reg.ops[i].pc = "idle" /\ reg.started < MaxRegOps

\* A revoke or activate that writes after a delete began does not undo the delete
LastAfter(keyId, op) ==
    IF reg.last[keyId] \in {"deleting", "delete"} THEN reg.last[keyId] ELSE op

\* createApiKey, line 91: SET of the record of a fresh keyId (randomUUID)
CreateRecord(i, keyId, expiresAt) ==
    /\ RegStart(i)
    /\ keyId \notin DOMAIN reg.issued
    /\ \A j \in RegSlots : ~(reg.ops[j].op = "create" /\ reg.ops[j].keyId = keyId)
    /\ keyRecords' = [keyRecords EXCEPT ![keyId] =
                        {NewRecord(keyId, RawKeyOf(keyId), expiresAt)}]
    /\ reg' = [reg EXCEPT !.started = @ + 1,
                          !.ops[i] = [IdleOp EXCEPT !.pc = "create-hash", !.op = "create",
                                                    !.keyId = keyId]]
    /\ UNCHANGED <<now, hashIndex, rlCounters>>
    /\ RegUnchanged

\* createApiKey, line 92: SET of the hash lookup key
CreateHash(i) ==
    LET keyId == reg.ops[i].keyId
        hash == sha256Hex(RawKeyOf(keyId))
    IN  /\ reg.ops[i].pc = "create-hash"
        /\ hashIndex' = [h \in DOMAIN hashIndex \cup {hash} |->
                            IF h = hash THEN keyId ELSE hashIndex[h]]
        /\ reg' = [reg EXCEPT !.ops[i].pc = "create-index"]
        /\ UNCHANGED <<now, keyRecords, rlCounters>>
        /\ RegUnchanged

\* createApiKey, lines 93-95: SADD to the index set; the raw key is returned
CreateIndex(i) ==
    LET keyId == reg.ops[i].keyId
    IN  /\ reg.ops[i].pc = "create-index"
        /\ reg' = [reg EXCEPT !.index = @ \cup {keyId},
                              !.ops[i] = IdleOp,
                              !.issued = [k \in DOMAIN @ \cup {keyId} |-> RawKeyOf(k)],
                              !.last[keyId] = "create"]
        /\ UNCHANGED <<now, keyRecords, hashIndex, rlCounters>>
        /\ RegUnchanged

\* getRecordOrThrow of revokeApiKey, activateApiKey and deleteApiKey: NotFound ends
\* the operation; a revoke of a revoked record returns at once (lines 120-122).
\* The keyId of a record is known to a caller once createApiKey has returned it.
ReadRecord(i, op, keyId) ==
    LET record == getRecord(keyId)
    IN  /\ RegStart(i)
        /\ keyId \in DOMAIN reg.issued \/ record = {}
        /\ op \in {"revoke", "activate", "delete"}
        /\ reg' = [reg EXCEPT
                    !.started = @ + 1,
                    !.last[keyId] = IF op = "revoke" /\ record # {} /\ TheValue(record).revoked
                                    THEN LastAfter(keyId, "revoke") ELSE @,
                    !.ops[i] = IF record = {} \/ (op = "revoke" /\ TheValue(record).revoked)
                               THEN IdleOp
                               ELSE [IdleOp EXCEPT !.pc = op, !.op = op, !.keyId = keyId,
                                                   !.read = record]]
        /\ UNCHANGED <<now, keyRecords, hashIndex, rlCounters>>
        /\ RegUnchanged

\* revokeApiKey, lines 124-130: SET of the copy that was read, with revoked = true
RevokeWrite(i) ==
    LET keyId == reg.ops[i].keyId
    IN  /\ reg.ops[i].pc = "revoke"
        /\ keyRecords' = [keyRecords EXCEPT ![keyId] =
                            {[TheValue(reg.ops[i].read) EXCEPT !.revoked = TRUE]}]
        /\ reg' = [reg EXCEPT !.ops[i] = IdleOp, !.last[keyId] = LastAfter(keyId, "revoke")]
        /\ UNCHANGED <<now, hashIndex, rlCounters>>
        /\ RegUnchanged

\* activateApiKey, lines 136-142: SET of the copy that was read, with revoked = false
ActivateWrite(i) ==
    LET keyId == reg.ops[i].keyId
    IN  /\ reg.ops[i].pc = "activate"
        /\ keyRecords' = [keyRecords EXCEPT ![keyId] =
                            {[TheValue(reg.ops[i].read) EXCEPT !.revoked = FALSE]}]
        /\ reg' = [reg EXCEPT !.ops[i] = IdleOp, !.last[keyId] = LastAfter(keyId, "activate")]
        /\ UNCHANGED <<now, hashIndex, rlCounters>>
        /\ RegUnchanged

\* deleteApiKey, line 149: DEL of the record
DeleteRecord(i) ==
    LET keyId == reg.ops[i].keyId
    IN  /\ reg.ops[i].pc = "delete"
        /\ keyRecords' = [keyRecords EXCEPT ![keyId] = {}]
        /\ reg' = [reg EXCEPT !.ops[i].pc = "delete-hash", !.last[keyId] = "deleting"]
        /\ UNCHANGED <<now, hashIndex, rlCounters>>
        /\ RegUnchanged

\* deleteApiKey, line 150: DEL of the hash lookup key of the record that was read
DeleteHash(i) ==
    /\ reg.ops[i].pc = "delete-hash"
    /\ hashIndex' = [h \in DOMAIN hashIndex \ {TheValue(reg.ops[i].read).hash} |-> hashIndex[h]]
    /\ reg' = [reg EXCEPT !.ops[i].pc = "delete-index"]
    /\ UNCHANGED <<now, keyRecords, rlCounters>>
    /\ RegUnchanged

\* deleteApiKey, line 151: SREM from the index set; the delete returns
DeleteIndex(i) ==
    LET keyId == reg.ops[i].keyId
    IN  /\ reg.ops[i].pc = "delete-index"
        /\ reg' = [reg EXCEPT !.index = @ \ {keyId}, !.ops[i] = IdleOp,
                              !.last[keyId] = "delete"]
        /\ UNCHANGED <<now, keyRecords, hashIndex, rlCounters>>
        /\ RegUnchanged

\* validateClientApiKey, lines 52-61: a blank key returns null without the store;
\* otherwise GET of the hash lookup key. A validation changes nothing in the store
\* and is not counted among the MaxRegOps operations.
ValidateLookup(i, rawApiKey) ==
    LET blank == rawApiKey = {} \/ Len(Trim(TheValue(rawApiKey))) = 0
        hash == sha256Hex(Trim(TheValue(rawApiKey)))
        found == IF blank \/ hash \notin DOMAIN hashIndex THEN {} ELSE {hashIndex[hash]}
    IN  /\ reg.ops[i].pc = "idle"
        /\ reg' = [reg EXCEPT
                    !.ops[i] = [IdleOp EXCEPT !.op = "validate", !.raw = rawApiKey,
                                    !.found = found,
                                    !.pc = IF found = {} THEN "done" ELSE "validate-record"]]
        /\ UNCHANGED <<now, keyRecords, hashIndex, rlCounters>>
        /\ RegUnchanged

\* validateClientApiKey, lines 63-68: GET of the record, and the ApiConsumer
ValidateRecord(i) ==
    LET record == getRecord(TheValue(reg.ops[i].found))
    IN  /\ reg.ops[i].pc = "validate-record"
        /\ reg' = [reg EXCEPT !.ops[i].pc = "done",
                              !.ops[i].read = record,
                              !.ops[i].readAt = now,
                              !.ops[i].result =
                                IF \/ record = {}
                                   \/ TheValue(record).revoked
                                   \/ isExpired(TheValue(record).expiresAt)
                                THEN {}
                                ELSE {[keyId |-> TheValue(record).keyId,
                                       owner |-> TheValue(record).owner]}]
        /\ UNCHANGED <<now, keyRecords, hashIndex, rlCounters>>
        /\ RegUnchanged

\* listApiKeys: the records of the index members; a member without a record is
\* removed from the index set
ListApiKeys(i) ==
    LET listed == {k \in reg.index : getRecord(k) # {}}
    IN  /\ RegStart(i)
        /\ reg' = [reg EXCEPT !.started = @ + 1, !.index = listed,
                              !.ops[i] = [IdleOp EXCEPT !.op = "list", !.pc = "done",
                                                        !.listed = listed]]
        /\ UNCHANGED <<now, keyRecords, hashIndex, rlCounters>>
        /\ RegUnchanged

\* consumePreAuthRateLimit(ip, rawApiKey) and consumeAdminRateLimit(ip, rawToken)
RegConsume(scope, ip, secret) ==
    LET identifier == IF scope = "preauth" THEN buildPreAuthIdentifier(ip, secret)
                      ELSE buildAdminIdentifier(ip, secret)
    IN  /\ reg.consumed < MaxRegConsumes
        /\ rlCounters' = CountersAfter(rateLimitKey(scope, identifier, WindowStart), TRUE)
        /\ reg' = [reg EXCEPT !.consumed = @ + 1]
        /\ UNCHANGED <<now, keyRecords, hashIndex>>
        /\ RegUnchanged

\* The caller takes the result
RegRelease(i) ==
    /\ reg.ops[i].pc = "done"
    /\ reg' = [reg EXCEPT !.ops[i] = IdleOp]
    /\ UNCHANGED <<now, keyRecords, hashIndex, rlCounters>>
    /\ RegUnchanged

RegTick ==
    /\ now < MaxRegTicks * MsPerSecond
    /\ now' = now + MsPerSecond
    /\ UNCHANGED <<reg, keyRecords, hashIndex, rlCounters>>
    /\ RegUnchanged

RegistryNext ==
    \/ \E i \in RegSlots, keyId \in KeyIds, expiresAt \in RegExpiries :
            CreateRecord(i, keyId, expiresAt)
    \/ \E i \in RegSlots : CreateHash(i)
    \/ \E i \in RegSlots : CreateIndex(i)
    \/ \E i \in RegSlots, op \in {"revoke", "activate", "delete"}, keyId \in KeyIds :
            ReadRecord(i, op, keyId)
    \/ \E i \in RegSlots : RevokeWrite(i)
    \/ \E i \in RegSlots : ActivateWrite(i)
    \/ \E i \in RegSlots : DeleteRecord(i)
    \/ \E i \in RegSlots : DeleteHash(i)
    \/ \E i \in RegSlots : DeleteIndex(i)
    \/ \E i \in RegSlots, rawApiKey \in RegPresented : ValidateLookup(i, rawApiKey)
    \/ \E i \in RegSlots : ValidateRecord(i)
    \/ \E i \in RegSlots : ListApiKeys(i)
    \/ \E scope \in {"preauth", "admin"}, secret \in {{}, {RawK1}, {AdminToken}} :
            RegConsume(scope, {"ip1"}, secret)
    \/ \E i \in RegSlots : RegRelease(i)
    \/ RegTick

SpecRegistry == RegistryInit /\ [][RegistryNext]_vars

-----------------------------------------------------------------------------
(* C21 *)

\* A record is valid at time t: not revoked, and expiresAt absent or t before it
ValidAt(record, t) ==
    /\ ~record.revoked
    /\ \/ record.expiresAt.kind = "none"
       \/ record.expiresAt.kind = "at" /\ t < record.expiresAt.at

Validations == {i \in RegSlots : reg.ops[i].op = "validate" /\ reg.ops[i].pc = "done"}

\* What a validation of the key issued for keyId returns in the present state
ValidatesNow(keyId) == validateClientApiKey({reg.issued[keyId]})

\* C21: validateClientApiKey returns {keyId, owner} exactly when the hash index mapped
\* the hash of the trimmed key to a keyId whose record exists, is not revoked and is
\* not expired (expiresAt absent or now < expiresAt); over every sequence of admin
\* operations the issued key validates after create and after activate (unless
\* expired), fails after revoke, and fails for good once delete has returned.
C21_ValidatesExactlyValidRecords ==
    /\ \A i \in Validations :
        LET op == reg.ops[i]
        IN  /\ op.result # {} <=>
                    /\ op.found # {}
                    /\ op.read # {}
                    /\ ValidAt(TheValue(op.read), op.readAt)
            /\ \A consumer \in op.result :
                    /\ consumer = [keyId |-> TheValue(op.found),
                                   owner |-> TheValue(op.read).owner]
                    /\ TheValue(op.read).hash = sha256Hex(Trim(TheValue(op.raw)))
    /\ \A keyId \in DOMAIN reg.issued :
        /\ reg.last[keyId] \in {"create", "activate"} =>
                /\ getRecord(keyId) # {}
                /\ ValidatesNow(keyId) # {} <=> ValidAt(TheValue(getRecord(keyId)), now)
                /\ \A consumer \in ValidatesNow(keyId) : consumer.keyId = keyId
        /\ reg.last[keyId] = "revoke" => ValidatesNow(keyId) = {}
        /\ reg.last[keyId] = "delete" =>
                /\ ValidatesNow(keyId) = {}
                /\ sha256Hex(reg.issued[keyId]) \notin DOMAIN hashIndex

\* The key of id1 was presented twice: one validation failed on the revoked record,
\* and after the following activate the other returned the consumer
C21_Witness ==
    \E i, j \in Validations :
        /\ reg.ops[i].found = {"id1"} /\ reg.ops[j].found = {"id1"}
        /\ reg.ops[i].result = {}
        /\ reg.ops[i].read # {} /\ TheValue(reg.ops[i].read).revoked
        /\ reg.ops[j].result # {}
        /\ reg.last["id1"] = "activate"
        /\ ValidatesNow("id1") # {}

-----------------------------------------------------------------------------
(* C22 *)

\* C22: once deleteApiKey(keyId) has returned, the record, the hash index entry and
\* the index-set membership of keyId are all gone and listApiKeys does not return
\* it, also when a revoke or activate of the same keyId ran concurrently.
C22_DeletedKeyLeavesNothing ==
    \A keyId \in DOMAIN reg.issued :
        reg.last[keyId] = "delete" =>
            /\ getRecord(keyId) = {}
            /\ sha256Hex(reg.issued[keyId]) \notin DOMAIN hashIndex
            /\ keyId \notin reg.index
            /\ keyId \notin {k \in reg.index : getRecord(k) # {}}

-----------------------------------------------------------------------------
(* C23 *)

\* The credentials that reach the service: the keys create hands out, the key values
\* clients present, and the admin token
RawCredentials ==
    {RawK1, RawK2, RawK3, AdminToken} \cup {Trim(TheValue(raw)) : raw \in RegPresented \ {{}}}

\* The hashes that are keys or values of the state store
StoredHashes ==
    DOMAIN hashIndex \cup {TheValue(keyRecords[k]).hash : k \in {x \in KeyIds : keyRecords[x] # {}}}

\* C23: after any sequence of create, validate, revoke, activate, delete and
\* rate-limit operations no key and no value of the state store contains a raw client
\* API key or the raw admin token: a record holds the sha256 hash of its key, the hash
\* index is keyed by such hashes, and a preauth or admin rate-limit key holds the ip
\* and the word present or missing.
C23_NoRawCredentialInTheStore ==
    /\ \A hash \in StoredHashes :
        /\ \A raw \in RawCredentials : ~Contains(hash, raw)
        /\ \E keyId \in KeyIds : hash = sha256Hex(RawKeyOf(keyId))
    /\ \A hash \in DOMAIN hashIndex : hashIndex[hash] \in KeyIds
    /\ \A keyId \in KeyIds : \A record \in keyRecords[keyId] :
        /\ record.keyId = keyId
        /\ record.owner = "owner-" \o keyId
        /\ DOMAIN record = {"keyId", "hash", "owner", "revoked", "expiresAt"}
    /\ reg.index \subseteq KeyIds
    /\ \A k \in DOMAIN rlCounters :
        /\ k[1] \in {"preauth", "admin"}
        /\ k[2] \in {"ip1", "unknown"}
        /\ k[3] \in {"present", "missing"}
        /\ k[4] \in 0..NowSeconds

\* A key was created and a request presenting a key was counted by the preauth
\* limit: the store holds the hash of the one and the word present for the other
C23_Witness ==
    /\ \E record \in keyRecords["id1"] :
        /\ record.hash = sha256Hex(RawK1)
        /\ record.hash \in DOMAIN hashIndex
        /\ ~Contains(record.hash, RawK1)
    /\ "id1" \in reg.index
    /\ \E k \in DOMAIN rlCounters : k[1] = "preauth" /\ k[3] = "present"

-----------------------------------------------------------------------------
(* C24 *)

\* The names of the headers of an outbound upstream request
OutboundNames(out) == IF out.headers = {} THEN {} ELSE DOMAIN TheValue(out.headers)

XForwardedPrefix == <<"x", "-", "f", "o", "r", "w", "a", "r", "d", "e", "d", "-">>

\* C24: every header of the outbound upstream request is allowlisted or starts with
\* x-, and none of them is a hop-by-hop header, an x-forwarded-* header, x-real-ip,
\* or a header that a token of the request's connection header names.
C24_OutboundHeadersAreFiltered ==
    \A r \in ReqSlots : \A out \in req[r].upstream : \A name \in OutboundNames(out) :
        /\ name \in AllowlistedHeaders \/ StartsWith(name, <<"x", "-">>)
        /\ name \notin BlockedHeaders
        /\ ~StartsWith(name, XForwardedPrefix)
        /\ name \notin ConnectionTokens(ShapeOf(r).headers)

-----------------------------------------------------------------------------
(* cache/cache-admin.service.ts: CacheAdminService over the keys of the store *)

\* A constant prefix that leaves the method out of the namespace
PROXY_CACHE_KEY_PREFIX_ANY_METHOD == ProxyPrefix

PROXY_GET_CACHE_KEY_PREFIX == ProxyPrefix \o GET \o <<":">>

\* The batch sizes of the service, scaled to the stores of this model
SCAN_BATCH_SIZE == 2
DELETE_BATCH_SIZE == 1

MaxInvCalls == 1
MaxInvWrites == 2

\* String.prototype.replace(/\/{2,}/g, '/')
RECURSIVE CollapseSlashes(_)
CollapseSlashes(s) ==
    IF Len(s) < 2 THEN s
    ELSE IF s[1] = "/" /\ s[2] = "/" THEN CollapseSlashes(Tail(s))
    ELSE <<Head(s)>> \o CollapseSlashes(Tail(s))

\* normalizePathPart: the empty set stands for the BadRequestException it throws
normalizePathPart(value) ==
    IF Contains(value, SchemeSep) THEN {}
    ELSE LET withLeadingSlash == IF StartsWith(value, <<"/">>) THEN value ELSE <<"/">> \o value
             collapsed == CollapseSlashes(withLeadingSlash)
             normalized == StripTrailingSlashes(collapsed)
         IN  {IF Len(normalized) = 0 THEN <<"/">> ELSE normalized}

normalizePathWithOptionalQuery(value) ==
    LET trimmed == Trim(value)
    IN  IF \A i \in 1..Len(trimmed) : trimmed[i] # "?" THEN normalizePathPart(trimmed)
        ELSE LET queryIndex == CHOOSE j \in 1..Len(trimmed) :
                                   trimmed[j] = "?" /\ \A k \in 1..(j - 1) : trimmed[k] # "?"
                 rawPathPart == SubSeq(trimmed, 1, queryIndex - 1)
                 rawQuery == SubSeq(trimmed, queryIndex + 1, Len(trimmed))
             IN  IF Len(Trim(rawQuery)) = 0 THEN normalizePathPart(rawPathPart)
                 ELSE {normalizedPath \o <<"?">> \o rawQuery :
                           normalizedPath \in normalizePathPart(rawPathPart)}

normalizePathPrefix(value) ==
    LET trimmed == Trim(value)
    IN  IF \E i \in 1..Len(trimmed) : trimmed[i] = "?" THEN {} ELSE normalizePathPart(trimmed)

GlobMeta == {"\\", "*", "?", "[", "]"}

RECURSIVE escapeRedisGlob(_)
escapeRedisGlob(value) ==
    IF value = <<>> THEN <<>>
    ELSE (IF Head(value) \in GlobMeta THEN <<"\\", Head(value)>> ELSE <<Head(value)>>)
             \o escapeRedisGlob(Tail(value))

\* A match that takes the pattern for the key itself
GlobMatchWithoutStar(pattern, key) == pattern = key

\* The MATCH of SCAN: * is any run of characters, ? any one character, and a
\* backslash makes the next character literal. A pattern that invalidate builds
\* holds no unescaped bracket, so character classes are left out.
RECURSIVE GlobMatch(_, _)
GlobMatch(pattern, key) ==
    IF pattern = <<>> THEN key = <<>>
    ELSE IF Head(pattern) = "*"
         THEN \E n \in 0..Len(key) : GlobMatch(Tail(pattern), SubSeq(key, n + 1, Len(key)))
    ELSE IF key = <<>> THEN FALSE
    ELSE IF Head(pattern) = "?" THEN GlobMatch(Tail(pattern), Tail(key))
    ELSE IF Head(pattern) = "\\" /\ Len(pattern) >= 2
         THEN pattern[2] = Head(key) /\ GlobMatch(SubSeq(pattern, 3, Len(pattern)), Tail(key))
    ELSE Head(pattern) = Head(key) /\ GlobMatch(Tail(pattern), Tail(key))

\* The header components of a strict invalidation, as invalidate passes them on
\* to buildProxyCacheKey: each one trimmed, and left out when blank
AdminTrimmed(headers, name) ==
    IF name \in DOMAIN headers /\ Trim(headers[name]) # <<>> THEN {Trim(headers[name])} ELSE {}

\* The header components without the credential
StrictHeadersWithoutApiKey(headers) ==
    [name \in {n \in {"accept"} : AdminTrimmed(headers, n) # {}} |->
        TheValue(AdminTrimmed(headers, name))]

StrictHeaders(headers) ==
    LET accept == AdminTrimmed(headers, "accept")
        acceptLanguage == AdminTrimmed(headers, "acceptLanguage")
        apiKey == AdminTrimmed(headers, "apiKey")
    IN  [name \in (IF accept # {} THEN {"accept"} ELSE {})
                      \cup (IF acceptLanguage # {} THEN {"accept-language"} ELSE {})
                      \cup (IF apiKey # {} THEN {"api_key"} ELSE {}) |->
            IF name = "accept" THEN TheValue(accept)
            ELSE IF name = "accept-language" THEN TheValue(acceptLanguage)
            ELSE TheValue(apiKey)]

\* What invalidate works on: a pattern to scan for, one strict key, or nothing
\* when the input is rejected with 400
InvalidateTarget(input) ==
    IF input.scope = "all"
    THEN [kind |-> "pattern", text |-> PROXY_GET_CACHE_KEY_PREFIX \o <<"*">>]
    ELSE IF input.scope = "prefix"
    THEN LET normalizedPrefix == normalizePathPrefix(input.path)
         IN  IF normalizedPrefix = {} THEN [kind |-> "rejected", text |-> <<>>]
             ELSE [kind |-> "pattern",
                   text |-> PROXY_GET_CACHE_KEY_PREFIX
                                \o escapeRedisGlob(TheValue(normalizedPrefix)) \o <<"*">>]
    ELSE LET normalizedPath == normalizePathWithOptionalQuery(input.path)
         IN  IF normalizedPath = {} THEN [kind |-> "rejected", text |-> <<>>]
             ELSE IF input.strict
             THEN [kind |-> "key",
                   text |-> buildProxyCacheKey(GET, TheValue(normalizedPath),
                                               StrictHeaders(input.headers))]
             ELSE [kind |-> "pattern",
                   text |-> PROXY_GET_CACHE_KEY_PREFIX
                                \o escapeRedisGlob(TheValue(normalizedPath)) \o <<":", "*">>]

-----------------------------------------------------------------------------
(* SpecInvalidate: the proxy caching GET responses, and one admin invalidation *)

\* The request urls of the proxied GETs
InvUrls == {
    RoutePrefix \o <<"/", "a">>,
    RoutePrefix \o <<"/", "a", "/">>,
    RoutePrefix \o <<"/", "a", ":", "d">>,
    RoutePrefix \o <<"/", "a", "?", "x">> }

\* The forwarded headers that go into the key of a proxied GET
InvProxyHeaders == {
    <<>>,
    [name \in {"accept", "api_key"} |-> IF name = "accept" THEN <<"J">> ELSE <<"k">>] }

\* The key under which ProxyService.forward caches the GET of a url; the empty
\* set when extractPath rejects the url
PathWithQuery(url) ==
    {IF extractQueryString(url) = {} THEN path
     ELSE path \o <<"?">> \o TheValue(extractQueryString(url)) : path \in extractPath(url)}

CachedKey(url, headers) ==
    {buildProxyCacheKey(GET, pathWithQuery, headers) : pathWithQuery \in PathWithQuery(url)}

\* Keys of the other namespaces of the same store: an API-key record, a hash
\* index entry, a rate-limit counter, and a key next to the proxy GET namespace
ForeignKeys == {
    <<"a", "p", "i", "-", "k", "e", "y", "s", ":", "k", "e", "y", ":", "i", "d", "1">>,
    <<"a", "p", "i", "-", "k", "e", "y", "s", ":", "h", "a", "s", "h", ":", "h", "1">>,
    <<"a", "p", "i", "-", "k", "e", "y", "s", ":", "r", "a", "t", "e", "l", "i", "m", "i", "t", ":", "i", "d", "1", ":", "0">>,
    <<"p", "r", "o", "x", "y", ":", "P", "O", "S", "T", ":", "/", "a", ":", "|", "|">> }

InvPaths == {<<"/", "a">>, <<"/", "a", "/">>, <<"/", "a", "?", "x">>}
InvPrefixes == {<<" ", "a", "/">>, <<"/", "a", ":">>, <<"/", "a", "?", "x">>}
InvStrictHeaders == {
    <<>>,
    [name \in {"accept", "apiKey"} |-> IF name = "accept" THEN <<" ", "j", " ">> ELSE <<"k">>] }

InvInputs ==
    [scope : {"all"}, path : {<<>>}, strict : {FALSE}, headers : {<<>>}, dryRun : BOOLEAN]
    \cup [scope : {"prefix"}, path : InvPrefixes, strict : {FALSE}, headers : {<<>>},
          dryRun : BOOLEAN]
    \cup [scope : {"exact"}, path : InvPaths, strict : {FALSE}, headers : {<<>>},
          dryRun : BOOLEAN]
    \cup [scope : {"exact"}, path : InvPaths, strict : {TRUE}, headers : InvStrictHeaders,
          dryRun : BOOLEAN]

\* The keys, targets and matches of the bounded inputs; merging with the empty
\* function makes each an explicit table that is computed once
InvGets == InvUrls \X InvProxyHeaders

CachedKeys == [get \in InvGets |-> CachedKey(get[1], get[2])] @@ <<>>

InvKeys == ForeignKeys \cup UNION {CachedKeys[get] : get \in InvGets}

InvalidateTargets == [input \in InvInputs |-> InvalidateTarget(input)] @@ <<>>

ScanMatches ==
    [input \in InvInputs |->
        IF InvalidateTargets[input].kind = "pattern"
        THEN {k \in InvKeys : GlobMatch(InvalidateTargets[input].text, k)} ELSE {}] @@ <<>>

NoGet == {}

\* What getStoreClient hands out: a Redis client with EXISTS, one without it, or
\* nothing usable (null, or a client lacking scan or del)
InvClients == {"redis", "redis-no-exists", "none"}

\* A command sent to the store, with its arguments and its result
Command(op, cursor, match, count, keys, result) ==
    [op |-> op, cursor |-> cursor, match |-> match, count |-> count, keys |-> keys,
     result |-> result]

IdleInvalidate ==
    [pc |-> "idle", input |-> [scope |-> "all", path |-> <<>>, strict |-> FALSE,
                               headers |-> <<>>, dryRun |-> FALSE],
     target |-> [kind |-> "rejected", text |-> <<>>], error |-> "",
     before |-> {}, pending |-> {}, batch |-> {}, cursor |-> 0, scans |-> 0, cmds |-> {},
     matched |-> 0, deleted |-> 0, dels |-> {}, overlap |-> FALSE, after |-> NoGet]

InvalidateInit ==
    /\ KeyIdle
    /\ PipeIdle
    /\ CacheIdle
    /\ now = 0
    /\ fwd = <<>>
    /\ pol = <<>>
    /\ lim = <<>>
    /\ reg = <<>>
    /\ htp = <<>>
    /\ gad = <<>>
    /\ \E client \in InvClients :
           adm = [store |-> ForeignKeys, client |-> client, call |-> IdleInvalidate,
                  calls |-> 0, writes |-> 0]

InvUnchanged == UNCHANGED <<keyVars, now, pipeVars, cacheVars, fwd, pol, lim, reg, htp, gad>>

\* ProxyService.forward for a cacheable GET: HIT when the key is stored; on a
\* MISS the response is stored unless it turned out uncacheable. A write that
\* falls into a running invalidation is marked, and a SCAN that is still to come
\* may or may not return a key that appeared after the scan began.
ProxyGet(url, headers, stored, seen) ==
    /\ CachedKeys[<<url, headers>>] # {}
    /\ LET key == TheValue(CachedKeys[<<url, headers>>])
           xCache == IF key \in adm.store THEN "HIT" ELSE "MISS"
           writes == xCache = "MISS" /\ stored
           running == adm.call.pc \in {"scan", "delete", "strict"}
           call == adm.call
       IN  /\ writes => adm.writes < MaxInvWrites
           /\ ~writes => ~stored /\ ~seen
           /\ seen => /\ (call.pc = "scan" \/ (call.pc = "delete" /\ call.cursor # 0))
                       /\ key \in ScanMatches[call.input]
           /\ adm' = [adm EXCEPT
                  !.store = IF writes THEN @ \cup {key} ELSE @,
                  !.writes = IF writes THEN @ + 1 ELSE @,
                  !.call = [call EXCEPT
                      !.overlap = @ \/ (writes /\ running),
                      !.pending = IF seen THEN @ \cup {key} ELSE @,
                      !.after = IF call.pc = "returned" /\ call.after = NoGet
                                THEN {[url |-> url, headers |-> headers, xCache |-> xCache]}
                                ELSE @]]
    /\ InvUnchanged

\* A client that is handed out unchecked
getRedisClientUnchecked(client) == ""

\* getRedisClient: the empty string when the client can scan and delete, 503 else
getRedisClient(client) == IF client = "none" THEN "503" ELSE ""

\* invalidate up to its first command to the store: the input is normalized
\* (400 when it is rejected), then the client is fetched (503 without one)
InvalidateCall(input) ==
    /\ adm.call.pc = "idle"
    /\ adm.calls < MaxInvCalls
    /\ LET target == InvalidateTargets[input]
           error == IF target.kind = "rejected" THEN "400" ELSE getRedisClient(adm.client)
       IN  adm' = [adm EXCEPT
               !.calls = @ + 1,
               !.call = [IdleInvalidate EXCEPT
                   !.pc = IF error # "" THEN "returned"
                          ELSE IF target.kind = "key" THEN "strict" ELSE "scan",
                   !.error = error,
                   !.input = input,
                   !.target = target,
                   !.before = adm.store,
                   !.pending = IF error = "" THEN adm.store \cap ScanMatches[input] ELSE {}]]
    /\ InvUnchanged

\* One round of deleteInBatches that hands the whole scan batch to a single DEL
DeleteStepWholeBatch(keys) ==
    /\ adm.call.pc = "delete"
    /\ keys = adm.call.batch
    /\ adm' = [adm EXCEPT
           !.store = @ \ keys,
           !.call = [@ EXCEPT
               !.deleted = @ + Cardinality(keys \cap adm.store),
               !.dels = @ \cup keys,
               !.cmds = @ \cup {Command("DEL", 0, <<>>, 0, keys,
                                        Cardinality(keys \cap adm.store))},
               !.batch = {},
               !.pc = IF adm.call.cursor = 0 THEN "returned" ELSE "scan"]]
    /\ InvUnchanged

\* A scan that hands cursor 0 to every round
ScanStepFromCursorZero(batchKeys) ==
    /\ adm.call.pc = "scan"
    /\ batchKeys \subseteq adm.call.pending
    /\ Cardinality(batchKeys) <= SCAN_BATCH_SIZE
    /\ batchKeys = {} => adm.call.pending = {}
    /\ LET live == batchKeys \cap adm.store
           deletes == ~adm.call.input.dryRun /\ live # {}
           nextCursor == IF adm.call.pending \ batchKeys = {} THEN 0 ELSE adm.call.scans + 1
       IN  adm' = [adm EXCEPT
               !.call = [@ EXCEPT
                   !.matched = @ + Cardinality(live),
                   !.pending = @ \ batchKeys,
                   !.batch = IF deletes THEN live ELSE {},
                   !.cmds = @ \cup {Command("SCAN", 0, adm.call.target.text,
                                            SCAN_BATCH_SIZE, {}, Cardinality(live))},
                   !.cursor = nextCursor,
                   !.scans = @ + 1,
                   !.pc = IF deletes THEN "delete"
                          ELSE IF nextCursor = 0 THEN "returned"
                          ELSE "scan"]]
    /\ InvUnchanged

\* One round of the loop of scanAndInvalidateByPattern: SCAN is given the cursor
\* of the round before (0 at first) and returns a batch of the keys that match
\* and were not returned before, with cursor 0 when none is left
ScanStep(batchKeys) ==
    /\ adm.call.pc = "scan"
    /\ batchKeys \subseteq adm.call.pending
    /\ Cardinality(batchKeys) <= SCAN_BATCH_SIZE
    /\ batchKeys = {} => adm.call.pending = {}
    /\ LET live == batchKeys \cap adm.store
           deletes == ~adm.call.input.dryRun /\ live # {}
           nextCursor == IF adm.call.pending \ batchKeys = {} THEN 0 ELSE adm.call.scans + 1
       IN  adm' = [adm EXCEPT
               !.call = [@ EXCEPT
                   !.matched = @ + Cardinality(live),
                   !.pending = @ \ batchKeys,
                   !.batch = IF deletes THEN live ELSE {},
                   !.cmds = @ \cup {Command("SCAN", adm.call.cursor, adm.call.target.text,
                                            SCAN_BATCH_SIZE, {}, Cardinality(live))},
                   !.cursor = nextCursor,
                   !.scans = @ + 1,
                   !.pc = IF deletes THEN "delete"
                          ELSE IF nextCursor = 0 THEN "returned"
                          ELSE "scan"]]
    /\ InvUnchanged

\* One DEL of deleteInBatches
DeleteStep(keys) ==
    /\ adm.call.pc = "delete"
    /\ keys \subseteq adm.call.batch
    /\ keys # {}
    /\ Cardinality(keys) = DELETE_BATCH_SIZE \/ keys = adm.call.batch
    /\ Cardinality(keys) <= DELETE_BATCH_SIZE
    /\ adm' = [adm EXCEPT
           !.store = @ \ keys,
           !.call = [@ EXCEPT
               !.deleted = @ + Cardinality(keys \cap adm.store),
               !.dels = @ \cup keys,
               !.cmds = @ \cup {Command("DEL", 0, <<>>, 0, keys,
                                        Cardinality(keys \cap adm.store))},
               !.batch = @ \ keys,
               !.pc = IF adm.call.batch \ keys # {} THEN "delete"
                      ELSE IF adm.call.cursor = 0 THEN "returned"
                      ELSE "scan"]]
    /\ InvUnchanged

\* A strict step that issues its DEL in a dry run too
StrictStepAlwaysDeleting ==
    /\ adm.call.pc = "strict"
    /\ LET key == adm.call.target.text
           exists == key \in adm.store
       IN  adm' = [adm EXCEPT
               !.store = @ \ {key},
               !.call = [@ EXCEPT !.pc = "returned",
                                  !.dels = @ \cup {key},
                                  !.cmds = @ \cup {Command("DEL", 0, <<>>, 0, {key},
                                                           IF exists THEN 1 ELSE 0)},
                                  !.deleted = IF exists THEN 1 ELSE 0,
                                  !.matched = IF exists THEN 1 ELSE 0]]
    /\ InvUnchanged

\* keyExists: EXISTS when the client has it; otherwise a scan for the escaped
\* key with COUNT 1, of which the round that decides is kept
keyExists(client, key, keys) ==
    IF client = "redis"
    THEN [found |-> key \in keys,
          cmd |-> Command("EXISTS", 0, <<>>, 0, {key}, IF key \in keys THEN 1 ELSE 0)]
    ELSE LET batchKeys == {k \in keys : GlobMatch(escapeRedisGlob(key), k)}
         IN  [found |-> key \in batchKeys,
              cmd |-> Command("SCAN", 0, escapeRedisGlob(key), 1, {},
                              Cardinality(batchKeys))]

\* invalidateStrictKey: keyExists in a dry run, DEL otherwise
StrictStep ==
    /\ adm.call.pc = "strict"
    /\ LET key == adm.call.target.text
           exists == key \in adm.store
       IN  IF adm.call.input.dryRun
           THEN LET probe == keyExists(adm.client, key, adm.store)
                IN  adm' = [adm EXCEPT
                        !.call = [@ EXCEPT !.pc = "returned",
                                           !.cmds = @ \cup {probe.cmd},
                                           !.matched = IF probe.found THEN 1 ELSE 0,
                                           !.deleted = 0]]
           ELSE adm' = [adm EXCEPT
                    !.store = @ \ {key},
                    !.call = [@ EXCEPT !.pc = "returned",
                                       !.dels = @ \cup {key},
                                       !.cmds = @ \cup {Command("DEL", 0, <<>>, 0, {key},
                                                                IF exists THEN 1 ELSE 0)},
                                       !.deleted = IF exists THEN 1 ELSE 0,
                                       !.matched = IF exists THEN 1 ELSE 0]]
    /\ InvUnchanged

InvalidateNext ==
    \/ \E url \in InvUrls, headers \in InvProxyHeaders, stored \in BOOLEAN, seen \in BOOLEAN :
           ProxyGet(url, headers, stored, seen)
    \/ \E input \in InvInputs : InvalidateCall(input)
    \/ \E batchKeys \in SUBSET adm.call.pending : ScanStep(batchKeys)
    \/ \E keys \in SUBSET adm.call.batch : DeleteStep(keys)
    \/ StrictStep

SpecInvalidate == InvalidateInit /\ [][InvalidateNext]_vars

-----------------------------------------------------------------------------
(* C25 *)

InProxyGetNamespace(key) == StartsWith(key, <<"p", "r", "o", "x", "y", ":", "G", "E", "T", ":">>)

\* An invalidation of the given scope has just returned: it ran for real, no
\* cache write fell into it, and no GET followed it yet
JustCompleted(scope) ==
    /\ adm.call.pc = "returned"
    /\ adm.call.error = ""
    /\ adm.call.input.scope = scope
    /\ ~adm.call.input.dryRun
    /\ ~adm.call.overlap
    /\ adm.call.after = NoGet

\* C25: once invalidate with scope=all and dryRun=false has completed without
\* concurrent cache writes, no key of the proxy:GET: namespace is left and every
\* key outside of it is as it was; and whatever the scope and input, every key
\* handed to DEL starts with proxy:GET:.
C25_AllScopeClearsOnlyTheProxyGetNamespace ==
    /\ JustCompleted("all") =>
        /\ \A k \in adm.store : ~InProxyGetNamespace(k)
        /\ {k \in adm.store : ~InProxyGetNamespace(k)}
               = {k \in adm.call.before : ~InProxyGetNamespace(k)}
    /\ \A k \in adm.call.dels : InProxyGetNamespace(k)
    /\ ForeignKeys \subseteq adm.store

\* A store with two cached GETs next to the keys of the other namespaces was
\* invalidated with scope=all, and both cached keys were deleted
C25_Witness ==
    /\ JustCompleted("all")
    /\ Cardinality({k \in adm.call.before : InProxyGetNamespace(k)}) = 2
    /\ adm.call.dels = {k \in adm.call.before : InProxyGetNamespace(k)}
    /\ adm.call.deleted = 2
    /\ adm.store = ForeignKeys

-----------------------------------------------------------------------------
(* C26 *)

\* The path+query under which the proxy cached the given key
CachedPathsOf(key) ==
    UNION {PathWithQuery(get[1]) : get \in {g \in InvGets : CachedKeys[g] = {key}}}

\* The keys of a set that were cached for the given path+query
VariantsOf(pathWithQuery, keys) == {k \in keys : pathWithQuery \in CachedPathsOf(k)}

\* C26: invalidate with scope=exact, strict=false and path P deletes every cached
\* key whose path+query equals P, whatever its header variant, and no key whose
\* path+query differs from P; matched and deleted are the number of those keys.
C26_ExactDeletesTheVariantsOfThePath ==
    (JustCompleted("exact") /\ ~adm.call.input.strict) =>
        LET variants == VariantsOf(adm.call.input.path, adm.call.before)
        IN  /\ adm.store = adm.call.before \ variants
            /\ adm.call.matched = Cardinality(variants)
            /\ adm.call.deleted = Cardinality(variants)

-----------------------------------------------------------------------------
(* C27 *)

\* The supplied header components under the names buildProxyCacheKey reads
SuppliedHeaders(headers) ==
    [name \in {n \in {"accept", "accept-language", "api_key"} :
                   (IF n = "accept-language" THEN "acceptLanguage"
                    ELSE IF n = "api_key" THEN "apiKey" ELSE n) \in DOMAIN headers} |->
        headers[IF name = "accept-language" THEN "acceptLanguage"
                ELSE IF name = "api_key" THEN "apiKey" ELSE name]]

\* The one key a strict invalidation is about
StrictKeyOf(input) ==
    buildProxyCacheKey(GET, TheValue(normalizePathWithOptionalQuery(input.path)),
                       SuppliedHeaders(input.headers))

\* C27: invalidate with scope=exact and strict=true works on the single key that
\* buildProxyCacheKey gives for the path and the supplied accept, acceptLanguage
\* and apiKey: every other key, the other header variants of the path included,
\* is unchanged, and matched = deleted = 1 when that key existed and 0 when not.
C27_StrictTouchesTheSingleKey ==
    (JustCompleted("exact") /\ adm.call.input.strict) =>
        LET key == StrictKeyOf(adm.call.input)
            existed == key \in adm.call.before
        IN  /\ adm.call.dels \subseteq {key}
            /\ adm.store = adm.call.before \ {key}
            /\ adm.call.matched = (IF existed THEN 1 ELSE 0)
            /\ adm.call.deleted = (IF existed THEN 1 ELSE 0)

\* Both header variants of /a were cached, and the strict invalidation with the
\* accept and apiKey of one of them deleted that one and left the other
C27_Witness ==
    /\ JustCompleted("exact")
    /\ adm.call.input.strict
    /\ DOMAIN adm.call.input.headers = {"accept", "apiKey"}
    /\ Cardinality(VariantsOf(<<"/", "a">>, adm.call.before)) = 2
    /\ Cardinality(VariantsOf(<<"/", "a">>, adm.store)) = 1
    /\ adm.call.matched = 1
    /\ adm.call.deleted = 1

-----------------------------------------------------------------------------
(* C28 *)

\* The normalized prefix of a prefix invalidation that was not rejected
NormalizedPrefix == TheValue(normalizePathPrefix(adm.call.input.path))

\* The keys of a set that were cached for a path that starts with the prefix
KeysUnder(prefix, keys) == {k \in keys : \E q \in CachedPathsOf(k) : StartsWith(q, prefix)}

-----------------------------------------------------------------------------
(* C29 *)

\* The number of keys of a store that an invalidation is about
MatchCount(input, keys) ==
    IF InvalidateTargets[input].kind = "pattern"
    THEN Cardinality({k \in keys : GlobMatch(InvalidateTargets[input].text, k)})
    ELSE IF InvalidateTargets[input].text \in keys THEN 1 ELSE 0

\* An invalidation has just returned a result and no cache write fell into it
Undisturbed ==
    /\ adm.call.pc = "returned"
    /\ adm.call.error = ""
    /\ ~adm.call.overlap
    /\ adm.call.after = NoGet

\* C29: with dryRun=true, whatever the scope, invalidate issues no DEL: the store
\* is after the call what it was before, deleted is 0, and matched is the number
\* of keys that a real run on the same store matches.
C29_DryRunDeletesNothing ==
    /\ (adm.call.pc # "idle" /\ adm.call.input.dryRun) =>
        /\ adm.call.dels = {}
        /\ adm.call.deleted = 0
        /\ adm.call.before \subseteq adm.store
    /\ (Undisturbed /\ adm.call.input.dryRun) => adm.store = adm.call.before
    /\ Undisturbed => adm.call.matched = MatchCount(adm.call.input, adm.call.before)

\* A dry run of a pattern scope returned: it matched the two cached keys and both
\* are still stored
C29_Witness ==
    /\ Undisturbed
    /\ adm.call.input.dryRun
    /\ adm.call.target.kind = "pattern"
    /\ adm.call.matched = 2
    /\ adm.call.deleted = 0
    /\ adm.store = adm.call.before
    /\ Cardinality(adm.store \ ForeignKeys) = 2

-----------------------------------------------------------------------------
(* C30 *)

\* A real exact invalidation returned for a path+query of which the proxy held a
\* cached GET when it began, and no cache write fell into it
InvalidatedCachedPath ==
    /\ adm.call.pc = "returned"
    /\ adm.call.error = ""
    /\ adm.call.input.scope = "exact"
    /\ ~adm.call.input.strict
    /\ ~adm.call.input.dryRun
    /\ ~adm.call.overlap
    /\ VariantsOf(adm.call.input.path, adm.call.before) # {}

\* C30: for every path+query of which the proxy has cached a GET, an admin
\* invalidation with scope=exact and that same path+query reports matched >= 1
\* and deleted >= 1, and the next GET of a variant that was cached is a MISS.
C30_InvalidatedPathIsAMissAgain ==
    InvalidatedCachedPath =>
        /\ adm.call.matched >= 1
        /\ adm.call.deleted >= 1
        /\ \A get \in adm.call.after :
               (/\ PathWithQuery(get.url) = {adm.call.input.path}
                /\ CachedKeys[<<get.url, get.headers>>] \subseteq adm.call.before)
                   => get.xCache = "MISS"

-----------------------------------------------------------------------------
(* C31 *)

\* C31 as stated: keys are enumerated by SCAN with the computed MATCH pattern and
\* COUNT = SCAN_BATCH_SIZE only, never by KEYS, and no DEL carries more than
\* DELETE_BATCH_SIZE keys.
C31_ScansUseTheBatchCount ==
    \A c \in adm.call.cmds :
        /\ c.op # "KEYS"
        /\ c.op = "SCAN" => c.match = adm.call.target.text /\ c.count = SCAN_BATCH_SIZE
        /\ c.op = "DEL" => Cardinality(c.keys) <= DELETE_BATCH_SIZE

\* C31: a pattern scope enumerates keys by SCAN with its pattern and COUNT =
\* SCAN_BATCH_SIZE; the only other SCAN is that of a strict dry run on a client
\* without EXISTS, which matches the escaped key with COUNT 1; KEYS is never
\* issued and no DEL carries more than DELETE_BATCH_SIZE keys.
C31_CommandsAreBounded ==
    \A c \in adm.call.cmds :
        /\ c.op \in {"SCAN", "DEL", "EXISTS"}
        /\ (c.op = "SCAN" /\ adm.call.target.kind = "pattern") =>
               c.match = adm.call.target.text /\ c.count = SCAN_BATCH_SIZE
        /\ (c.op = "SCAN" /\ adm.call.target.kind = "key") =>
               /\ adm.call.input.dryRun
               /\ adm.client = "redis-no-exists"
               /\ c.match = escapeRedisGlob(adm.call.target.text)
               /\ c.count = 1
        /\ c.op = "DEL" => Cardinality(c.keys) <= DELETE_BATCH_SIZE /\ c.keys # {}

\* A real run of scope=all found two keys in one SCAN and deleted them with two
\* DELs
C31_Witness ==
    /\ adm.call.pc = "returned"
    /\ adm.call.input.scope = "all"
    /\ adm.call.scans = 1
    /\ Cardinality({c \in adm.call.cmds : c.op = "DEL"}) = 2
    /\ adm.call.deleted = 2

-----------------------------------------------------------------------------
(* C32 *)

\* C32: when the client of the store is unavailable, invalidate fails with 503
\* for every scope (an input that is rejected fails with its 400 before the
\* client is asked for); no command reaches the store, and the store is as it
\* was when the call began.
C32_UnavailableClientFailsClosed ==
    (adm.client = "none" /\ adm.call.pc # "idle") =>
        /\ adm.call.pc = "returned"
        /\ adm.call.error = (IF adm.call.target.kind = "rejected" THEN "400" ELSE "503")
        /\ adm.call.cmds = {}
        /\ adm.call.dels = {}
        /\ adm.call.matched = 0 /\ adm.call.deleted = 0
        /\ adm.call.before \subseteq adm.store
        /\ adm.call.after = NoGet => adm.store = adm.call.before

\* Without a client, a real prefix invalidation of a store with two cached GETs
\* under the prefix failed with 503 and both are still stored
C32_Witness ==
    /\ adm.client = "none"
    /\ adm.call.pc = "returned"
    /\ adm.call.error = "503"
    /\ adm.call.input.scope = "prefix"
    /\ ~adm.call.input.dryRun
    /\ Cardinality(KeysUnder(<<"/", "a">>, adm.store)) = 2
    /\ adm.store = adm.call.before

-----------------------------------------------------------------------------
(* C40 *)

\* The store answers every command: a scan round or a DEL that is waited for
\* comes back, and the rounds of a scan are finitely many
FairSpecInvalidate ==
    /\ SpecInvalidate
    /\ WF_vars(\E batchKeys \in SUBSET adm.call.pending : ScanStep(batchKeys))
    /\ WF_vars(\E keys \in SUBSET adm.call.batch : DeleteStep(keys))

RECURSIVE SumOfResults(_)
SumOfResults(cmds) ==
    IF cmds = {} THEN 0
    ELSE LET c == CHOOSE x \in cmds : TRUE IN c.result + SumOfResults(cmds \ {c})

ScansOf(call) == {c \in call.cmds : c.op = "SCAN"}

\* The cursors follow each other, and the counts are those of the commands
CursorsAndCounts ==
    adm.call.target.kind = "pattern" =>
        /\ {c.cursor : c \in ScansOf(adm.call)} = 0..(adm.call.scans - 1)
        /\ Cardinality(ScansOf(adm.call)) = adm.call.scans
        /\ (adm.call.pc = "scan" /\ adm.call.scans > 0) => adm.call.cursor # 0
        /\ (adm.call.pc = "returned" /\ adm.call.error = "") =>
               adm.call.cursor = 0 /\ adm.call.scans > 0
        /\ adm.call.matched = SumOfResults(ScansOf(adm.call))
        /\ adm.call.deleted = SumOfResults({c \in adm.call.cmds : c.op = "DEL"})
        /\ adm.call.deleted <= adm.call.matched

\* C40: a pattern invalidation scans from cursor 0, hands each returned cursor to
\* the next SCAN and stops at the first response with cursor 0; matched is the
\* number of keys the scans returned, deleted the sum of the DEL results and at
\* most matched; and every pattern invalidation that started returns.
C40_PatternInvalidationTerminates ==
    /\ []CursorsAndCounts
    /\ (adm.call.pc \in {"scan", "delete"}) ~> (adm.call.pc = "returned")

\* A real pattern invalidation returned after two rounds of SCAN that found one
\* key each
C40_Witness ==
    /\ adm.call.pc = "returned"
    /\ adm.call.error = ""
    /\ adm.call.target.kind = "pattern"
    /\ adm.call.scans = 2
    /\ adm.call.matched = 2
    /\ adm.call.deleted = 2

-----------------------------------------------------------------------------
(* C37 *)

\* A step in which a load or a refresh that was in flight when its key was
\* invalidated ends
OldLoadEnds(r) == creq[r].pc = "load" /\ creq[r].old /\ creq'[r].pc = "done"

OldRefreshEnds(i) == refreshes[i].pc = "loading" /\ refreshes[i].old /\ refreshes'[i].pc = "none"

\* C37: an entry that an invalidation removed stays absent until a request that
\* starts after the invalidation writes it: the MISS load or the background
\* refresh that was in flight when the invalidation ran does not create it.
C37_InFlightLoadDoesNotRecreateTheEntry ==
    [][/\ \A r \in CReqSlots :
              (OldLoadEnds(r) /\ cache[creq[r].key] = {}) => cache'[creq[r].key] = {}
       /\ \A i \in RefreshIds :
              (OldRefreshEnds(i) /\ cache[refreshes[i].key] = {}) =>
                  cache'[refreshes[i].key] = {}]_vars

-----------------------------------------------------------------------------
(* C38 *)

\* The keys of the bounded GET requests, as an explicit table
GetKeys ==
    [shape \in KeyPaths \X KeyHeaderSets |-> buildProxyCacheKey(GET, shape[1], shape[2])]
        @@ <<>>

\* The api_key of a request as it counts for the key: trimmed, empty when absent
ApiKeyOf(headers) == IF "api_key" \in DOMAIN headers THEN Trim(headers["api_key"]) ELSE <<>>

\* Two requests of the same path+query, normalized accept, normalized
\* accept-language and api_key
SameVariant(path, headers, otherPath, otherHeaders) ==
    /\ path = otherPath
    /\ normalizeHeaderValue(Opt(headers, "accept"))
           = normalizeHeaderValue(Opt(otherHeaders, "accept"))
    /\ normalizeHeaderValue(Opt(headers, "accept-language"))
           = normalizeHeaderValue(Opt(otherHeaders, "accept-language"))
    /\ ApiKeyOf(headers) = ApiKeyOf(otherHeaders)

\* C38: buildProxyCacheKey is injective on request shapes: two GET requests that
\* differ in path+query, normalized accept, normalized accept-language or api_key
\* never get the same key.
C38_KeyIsInjectiveOnShapes ==
    (kPc = "built" /\ kMethod = GET) =>
        \A shape \in DOMAIN GetKeys :
            GetKeys[shape] = kKey => SameVariant(kPath, kHeaders, shape[1], shape[2])

-----------------------------------------------------------------------------
(* http-client/http-client.service.ts: HttpClientService.requestRaw *)

\* The default of HTTP_CLIENT_RETRIES
DefaultRetries == 2

MaxHttpCalls == 1

\* The retries option of a call: absent, or a number
RetryOptions == {{}, {0 - 1}, {0}, {1}, {2}}

HttpMethods == {"GET", "POST"}

\* What one executeRequest ends with: a response with its status, or an error. The
\* errors are told apart as isRetryableError does: a failed fetch and the timeout
\* of fetchWithTimeout (neither has a status), the AbortError of a cancellation,
\* and a SyntaxError
HttpStatuses == {200, 204, 304, 404, 500, 503}

HttpErrorNames == {"FetchFailed", "RequestTimedOut", "AbortError", "SyntaxError"}

HttpOutcomes ==
    [kind : {"response"}, status : HttpStatuses, name : {""}]
    \cup [kind : {"error"}, status : {0}, name : HttpErrorNames]

ResponseOk(outcome) == outcome.status >= 200 /\ outcome.status < 300

normalizeRetries(value, fallback) ==
    IF value = {} \/ TheValue(value) < 0 THEN fallback ELSE TheValue(value)

\* An error that is retried whatever it is
isRetryableErrorAlways(error) == TRUE

\* isRetryableError, for the errors above (status 0 stands for no status)
isRetryableError(error) ==
    IF error.name = "SyntaxError" THEN FALSE
    ELSE IF error.name = "AbortError" THEN FALSE
    ELSE IF error.status >= 400 /\ error.status < 500 THEN FALSE
    ELSE IF error.status >= 500 /\ error.status < 600 THEN TRUE
    ELSE error.status = 0

\* The end of requestRaw that throws the last error whatever was received before
AfterLoopThrowing(lastError, lastResponse) ==
    [kind |-> "thrown", outcome |-> TheValue(lastError)]

\* The end of requestRaw after its loop was left by break
AfterLoop(lastError, lastResponse) ==
    IF lastError # {} /\ ~isRetryableError(TheValue(lastError))
    THEN [kind |-> "thrown", outcome |-> TheValue(lastError)]
    ELSE IF lastResponse # {}
    THEN [kind |-> "returned", outcome |-> TheValue(lastResponse)]
    ELSE [kind |-> "thrown", outcome |-> TheValue(lastError)]

NoResult == [kind |-> "none", outcome |-> [kind |-> "", status |-> 0, name |-> ""]]

IdleHttp ==
    [pc |-> "idle", method |-> "", retries |-> {}, effectiveRetries |-> 0, attempt |-> 0,
     lastError |-> {}, lastResponse |-> {}, outcomes |-> <<>>, result |-> NoResult]

HttpInit ==
    /\ KeyIdle
    /\ PipeIdle
    /\ CacheIdle
    /\ now = 0
    /\ fwd = <<>> /\ pol = <<>> /\ lim = <<>> /\ reg = <<>> /\ adm = <<>> /\ gad = <<>>
    /\ htp = [call |-> IdleHttp, calls |-> 0]

HttpUnchanged == UNCHANGED <<keyVars, now, pipeVars, cacheVars, fwd, pol, lim, reg, adm, gad>>

\* requestRaw up to its first attempt
RequestRaw(method, retries) ==
    /\ htp.call.pc \in {"idle", "done"}
    /\ htp.calls < MaxHttpCalls
    /\ htp' = [htp EXCEPT
           !.calls = @ + 1,
           !.call = [IdleHttp EXCEPT
               !.pc = "attempt",
               !.method = method,
               !.retries = retries,
               !.effectiveRetries = IF method = "GET"
                                    THEN normalizeRetries(retries, DefaultRetries) ELSE 0]]
    /\ HttpUnchanged

\* The executeRequest of the current attempt ends, and requestRaw goes on to its
\* next attempt or to its end
AttemptReturns(outcome) ==
    /\ htp.call.pc = "attempt"
    /\ LET call == htp.call
           seen == [call EXCEPT !.outcomes = Append(@, outcome)]
       IN  htp' = [htp EXCEPT !.call =
               IF outcome.kind = "response"
               THEN IF ResponseOk(outcome)
                    THEN [seen EXCEPT !.pc = "done",
                                      !.result = [kind |-> "returned", outcome |-> outcome]]
                    ELSE IF outcome.status >= 500 /\ outcome.status < 600
                            /\ call.attempt < call.effectiveRetries
                    THEN [seen EXCEPT !.lastResponse = {outcome}, !.attempt = @ + 1]
                    ELSE [seen EXCEPT !.pc = "done", !.lastResponse = {outcome},
                                      !.result = [kind |-> "returned", outcome |-> outcome]]
               ELSE IF call.attempt >= call.effectiveRetries \/ ~isRetryableError(outcome)
                    THEN [seen EXCEPT !.pc = "done", !.lastError = {outcome},
                                      !.result = AfterLoop({outcome}, call.lastResponse)]
                    ELSE [seen EXCEPT !.lastError = {outcome}, !.attempt = @ + 1]]
    /\ HttpUnchanged

HttpNext ==
    \/ \E method \in HttpMethods, retries \in RetryOptions : RequestRaw(method, retries)
    \/ \E outcome \in HttpOutcomes : AttemptReturns(outcome)

SpecHttp == HttpInit /\ [][HttpNext]_vars

-----------------------------------------------------------------------------
(* C33, C34: the attempts and the result of requestRaw *)

\* A failure after which requestRaw may try again: a failed fetch or a timeout
\* (errors of the network, without a status), or a 5xx response
Transient(outcome) ==
    \/ outcome.kind = "error" /\ outcome.name \in {"FetchFailed", "RequestTimedOut"}
    \/ outcome.kind = "response" /\ outcome.status >= 500 /\ outcome.status < 600

MaxAttempts(call) ==
    IF call.method = "GET" THEN normalizeRetries(call.retries, DefaultRetries) + 1 ELSE 1

\* C33: requestRaw makes at most retries + 1 attempts for a GET and exactly one for a
\* POST; every attempt that was followed by another one ended with a network error or
\* a 5xx response, never with a 2xx or 4xx response, a parse error or a cancellation;
\* a call that is still attempting has attempts left, so it ends within the bound.
C33_AttemptsAreBounded ==
    LET call == htp.call
        n == Len(call.outcomes)
    IN  call.pc # "idle" =>
            /\ n <= MaxAttempts(call)
            /\ call.pc = "attempt" => n < MaxAttempts(call)
            /\ call.pc = "done" => n >= 1
            /\ (call.pc = "done" /\ call.method = "POST") => n = 1
            /\ \A i \in 1..n :
                   (i < n \/ call.pc = "attempt") => Transient(call.outcomes[i])

\* A GET whose retries option is invalid ends after the default retries + 1 attempts
\* that all failed, and a POST ends after its only attempt failed
C33_Witness ==
    /\ htp.call.pc = "done"
    /\ htp.call.method = "GET"
    /\ htp.call.retries = {0 - 1}
    /\ Len(htp.call.outcomes) = DefaultRetries + 1
    /\ htp.call.outcomes[1].kind = "error"
    /\ htp.call.outcomes[2].kind = "response"

FinalOutcome == htp.call.outcomes[Len(htp.call.outcomes)]

NetworkOrTimeout(outcome) ==
    outcome.kind = "error" /\ outcome.name \in {"FetchFailed", "RequestTimedOut"}

\* C34 as stated: a call whose final attempt got a response returns that response,
\* nothing is thrown that is not an error, and a call whose final attempt failed with
\* a network or timeout error throws that error.
C34_FinalNetworkErrorIsThrown ==
    htp.call.pc = "done" =>
        /\ FinalOutcome.kind = "response" =>
               htp.call.result = [kind |-> "returned", outcome |-> FinalOutcome]
        /\ htp.call.result.kind = "thrown" => htp.call.result.outcome.kind = "error"
        /\ NetworkOrTimeout(FinalOutcome) =>
               htp.call.result = [kind |-> "thrown", outcome |-> FinalOutcome]

\* The attempts of the call that got a response
ResponsesSeen == {i \in 1..Len(htp.call.outcomes) : htp.call.outcomes[i].kind = "response"}

LatestResponse == htp.call.outcomes[CHOOSE i \in ResponsesSeen : \A j \in ResponsesSeen : j <= i]

\* C34, amended: a call whose final attempt got a response returns that response and
\* nothing is thrown that is not an error; a call whose final attempt failed with a
\* network or timeout error throws that error when no attempt of the call got a
\* response, and otherwise returns the latest response it got (a 5xx); a final
\* cancellation or parse error is always thrown.
C34_FinalNetworkErrorIsThrownUnlessAResponseWasSeen ==
    htp.call.pc = "done" =>
        /\ FinalOutcome.kind = "response" =>
               htp.call.result = [kind |-> "returned", outcome |-> FinalOutcome]
        /\ htp.call.result.kind = "thrown" => htp.call.result.outcome.kind = "error"
        /\ NetworkOrTimeout(FinalOutcome) =>
               htp.call.result =
                   IF ResponsesSeen = {}
                   THEN [kind |-> "thrown", outcome |-> FinalOutcome]
                   ELSE [kind |-> "returned", outcome |-> LatestResponse]
        /\ (FinalOutcome.kind = "error" /\ ~NetworkOrTimeout(FinalOutcome)) =>
               htp.call.result = [kind |-> "thrown", outcome |-> FinalOutcome]

\* A GET got a 503, tried again, failed with a timeout on its last attempt and
\* returned the 503
C34_Witness ==
    /\ htp.call.pc = "done"
    /\ Len(htp.call.outcomes) = 2
    /\ htp.call.outcomes[1].status = 503
    /\ htp.call.outcomes[2].name = "RequestTimedOut"
    /\ htp.call.result.kind = "returned"
    /\ htp.call.result.outcome.status = 503

-----------------------------------------------------------------------------
(* api-keys/admin-auth.guard.ts, api-keys/api-keys-admin.controller.ts and
   cache/cache-admin.controller.ts: an admin request passes AdminAuthGuard and
   then runs its handler. One request at a time; the services behind the handlers
   are the subject of SpecRegistry and SpecInvalidate and here only succeed or fail. *)

MaxAdminRequests == 3

MaxAdminTicks == 1

\* ADMIN_API_TOKEN of the process: not set, a token, a token with a space in it
AdminTokens == {<<>>, AdminToken, <<"t", " ", "1">>}

\* getStoreClient of the process: a client, or none
AdminClients == {"redis", "none"}

AdminIps == {{}, {"ip1"}}

BearerScheme == <<"B", "e", "a", "r", "e", "r">>

\* The authorization header of a request: absent, the token of the process under
\* the scheme in two letter cases, another token, the token followed by a further
\* word, the token after two spaces, the token without a scheme, and a token with
\* a space in it
AdminAuthorizations ==
    { {},
      {BearerScheme \o <<" ">> \o AdminToken},
      {Lower(BearerScheme) \o <<" ">> \o AdminToken},
      {BearerScheme \o <<" ", "t", "2">>},
      {BearerScheme \o <<" ">> \o AdminToken \o <<" ", "x">>},
      {BearerScheme \o <<" ", " ">> \o AdminToken},
      {AdminToken},
      {BearerScheme \o <<" ", "t", " ", "1">>} }

AdminActions == {"create", "list", "revoke", "activate", "delete", "invalidate"}

\* What the handler parses first: body.owner of create, the keyId parameter of
\* revoke, activate and delete, body.scope of invalidate
AdminInputs == {<<>>, <<" ">>, <<" ", "k">>, <<"a", "l", "l">>}

\* utils/hash.ts
hashKeyForLogging(key) ==
    LET hex == sha256Hex(key)
    IN  SubSeq(hex, 1, IF Len(hex) < 32 THEN Len(hex) ELSE 32)

extractBearer(value) ==
    LET parts == Split(value, " ")
    IN  IF Len(parts) < 2 \/ parts[1] = <<>> \/ parts[2] = <<>>
           \/ Lower(parts[1]) # Lower(BearerScheme)
        THEN {}
        ELSE {parts[2]}

\* A comparison of the lengths only
safeEqualsLengthOnly(candidate, expected) == Len(candidate) = Len(expected)

\* safeEquals: equal length, then timingSafeEqual on the bytes
safeEquals(candidate, expected) ==
    /\ Len(candidate) = Len(expected)
    /\ \A i \in 1..Len(candidate) : candidate[i] = expected[i]

AdminIdentityOf(token) == <<"t", "o", "k", "e", "n", ":">> \o hashKeyForLogging(token)

\* A guard that compares the token before it asks the rate limit
GuardOutcomeComparingFirst(configuredToken, client, token, count) ==
    IF configuredToken = <<>> THEN [status |-> 401, retryAfter |-> {}, identity |-> {}]
    ELSE IF token = {} \/ ~safeEquals(TheValue(token), configuredToken)
    THEN [status |-> 401, retryAfter |-> {}, identity |-> {}]
    ELSE IF client = "none" THEN [status |-> 503, retryAfter |-> {}, identity |-> {}]
    ELSE IF ~RateLimitResult(count).allowed
    THEN [status |-> 429, retryAfter |-> {RateLimitResult(count).retryAfter}, identity |-> {}]
    ELSE [status |-> 200, retryAfter |-> {}, identity |-> {AdminIdentityOf(TheValue(token))}]

\* canActivate after the token was extracted and, with a token configured and a
\* client, the counter was incremented to count: the exception it throws (as its
\* status) or 200 for true, the retry-after header and request.adminIdentity
GuardOutcome(configuredToken, client, token, count) ==
    IF configuredToken = <<>> THEN [status |-> 401, retryAfter |-> {}, identity |-> {}]
    ELSE IF client = "none" THEN [status |-> 503, retryAfter |-> {}, identity |-> {}]
    ELSE IF ~RateLimitResult(count).allowed
    THEN [status |-> 429, retryAfter |-> {RateLimitResult(count).retryAfter}, identity |-> {}]
    ELSE IF token = {} \/ ~safeEquals(TheValue(token), configuredToken)
    THEN [status |-> 401, retryAfter |-> {}, identity |-> {}]
    ELSE [status |-> 200, retryAfter |-> {}, identity |-> {AdminIdentityOf(TheValue(token))}]

\* parseCreateBody (owner), parseKeyId and parseScope accept the input
parseAccepts(action, input) ==
    CASE action = "create" -> Len(Trim(input)) > 0
      [] action = "list" -> TRUE
      [] action = "invalidate" -> input \in {<<"e", "x", "a", "c", "t">>,
                                             <<"p", "r", "e", "f", "i", "x">>,
                                             <<"a", "l", "l">>}
      [] OTHER -> Len(Trim(input)) > 0

\* audit: the record and the logger method that writes it
AuditRecord(action, result, identity) ==
    [action |-> action, result |-> result,
     level |-> IF result = "error" THEN "warn" ELSE "log",
     adminIdentity |-> IF identity = {} THEN <<"u", "n", "k", "n", "o", "w", "n">>
                       ELSE TheValue(identity)]

IdleAdminReq ==
    [pc |-> "idle", ip |-> {}, authorization |-> {}, token |-> {}, window |-> 0,
     before |-> 0,
     consumed |-> FALSE, status |-> 0, retryAfter |-> {}, adminIdentity |-> {},
     action |-> "", input |-> <<>>, failed |-> FALSE, audits |-> <<>>]

AdminInit ==
    /\ KeyIdle
    /\ PipeIdle
    /\ CacheIdle
    /\ now = 0
    /\ fwd = <<>> /\ pol = <<>> /\ lim = <<>> /\ reg = <<>> /\ adm = <<>> /\ htp = <<>>
    /\ \E token \in AdminTokens, client \in AdminClients :
           gad = [token |-> token, client |-> client, req |-> IdleAdminReq, requests |-> 0]

AdminUnchanged ==
    UNCHANGED <<keyVars, cacheVars, fwd, pol, lim, reg, adm, htp, keyRecords, hashIndex,
                req, arrivals>>

AdminCounterKey(ip, token) == rateLimitKey("admin", buildAdminIdentifier(ip, token), WindowStart)

\* AdminAuthGuard.canActivate
CanActivate(ip, authorization) ==
    LET token == extractBearer(IF authorization = {} THEN <<>> ELSE TheValue(authorization))
        counterKey == AdminCounterKey(ip, token)
        consumes == gad.token # <<>> /\ gad.client # "none"
        count == IF consumes THEN IncrCount(counterKey) ELSE 0
        outcome == GuardOutcome(gad.token, gad.client, token, count)
    IN  /\ gad.req.pc \in {"idle", "rejected", "handled"}
        /\ gad.requests < MaxAdminRequests
        /\ rlCounters' = IF consumes THEN CountersAfter(counterKey, TRUE) ELSE rlCounters
        /\ gad' = [gad EXCEPT
               !.requests = @ + 1,
               !.req = [IdleAdminReq EXCEPT
                   !.pc = IF outcome.status = 200 THEN "admitted" ELSE "rejected",
                   !.ip = ip,
                   !.authorization = authorization,
                   !.token = token,
                   !.window = WindowStart,
                   !.before = IF counterKey \in DOMAIN rlCounters
                              THEN rlCounters[counterKey].count ELSE 0,
                   !.consumed = consumes,
                   !.status = outcome.status,
                   !.retryAfter = outcome.retryAfter,
                   !.adminIdentity = outcome.identity]]
        /\ UNCHANGED now
        /\ AdminUnchanged

\* The handler of the route: create, list, revoke, activate and remove of
\* ApiKeysAdminController parse before their try block, invalidate of
\* CacheAdminController parses inside it; serviceOk is whether the service call
\* of the handler returns
Handle(action, input, serviceOk) ==
    LET parsed == parseAccepts(action, input)
        ok == parsed /\ serviceOk
        audited == IF action = "invalidate" THEN TRUE ELSE parsed
    IN  /\ gad.req.pc = "admitted"
        /\ gad' = [gad EXCEPT !.req = [@ EXCEPT
               !.pc = "handled",
               !.action = action,
               !.input = input,
               !.failed = ~ok,
               !.status = IF ok THEN 200 ELSE IF ~parsed THEN 400 ELSE 500,
               !.audits = IF audited
                          THEN <<AuditRecord(action, IF ok THEN "ok" ELSE "error",
                                             gad.req.adminIdentity)>>
                          ELSE <<>>]]
        /\ UNCHANGED <<now, rlCounters>>
        /\ AdminUnchanged

AdminTick ==
    /\ now < MaxAdminTicks * MsPerSecond
    /\ now' = now + MsPerSecond
    /\ UNCHANGED <<gad, rlCounters>>
    /\ AdminUnchanged

AdminNext ==
    \/ \E ip \in AdminIps, authorization \in AdminAuthorizations : CanActivate(ip, authorization)
    \/ \E action \in AdminActions, input \in AdminInputs, serviceOk \in BOOLEAN :
            Handle(action, input, serviceOk)
    \/ AdminTick

SpecAdmin == AdminInit /\ [][AdminNext]_vars

-----------------------------------------------------------------------------
(* C35, C36, C39: the admin guard and the audit records of the admin handlers *)

Admitted == gad.req.pc \in {"admitted", "handled"}

PastGuard == gad.req.pc \in {"admitted", "handled", "rejected"}

IdentityIsHashOnly ==
    /\ Admitted => gad.req.adminIdentity =
                       {<<"t", "o", "k", "e", "n", ":">> \o hashKeyForLogging(gad.token)}
    /\ gad.req.pc = "rejected" => gad.req.adminIdentity = {}
    /\ \A identity \in gad.req.adminIdentity :
           /\ gad.token # <<>> => ~Contains(identity, gad.token)
           /\ \A token \in gad.req.token : ~Contains(identity, token)

\* C35 as stated: a request is admitted if and only if an admin token is configured
\* and its authorization header is "Bearer " followed by exactly that token;
\* adminIdentity is "token:" + the first 32 hex of sha256(token) on admission, is
\* not set on a rejected request, and never contains the raw token.
C35_AdmittedIffBearerTokenMatches ==
    PastGuard =>
        /\ Admitted <=> /\ gad.token # <<>>
                        /\ gad.req.authorization = {BearerScheme \o <<" ">> \o gad.token}
        /\ IdentityIsHashOnly

\* The words of the authorization header, as separated by single spaces
AuthorizationWords ==
    IF gad.req.authorization = {} THEN <<>> ELSE Split(TheValue(gad.req.authorization), " ")

\* C35, amended: a request is admitted if and only if an admin token is configured,
\* the rate-limit backend is available, the admin rate limit of its window was not
\* exhausted before it, and its authorization header, split at single spaces, has
\* "bearer" in any letter case as first word and the configured token as second
\* word (further words are ignored, and a configured token with a space in it is
\* never matched); adminIdentity is "token:" + the first 32 hex of sha256(token) on
\* admission, is not set on a rejected request, and never contains the raw token.
C35_AdmittedIffAllowedAndBearerTokenMatches ==
    PastGuard =>
        /\ Admitted <=> /\ gad.token # <<>>
                        /\ gad.client = "redis"
                        /\ gad.req.before < RateLimitMaxRequests
                        /\ Len(AuthorizationWords) >= 2
                        /\ Lower(AuthorizationWords[1]) = <<"b", "e", "a", "r", "e", "r">>
                        /\ AuthorizationWords[2] = gad.token
        /\ IdentityIsHashOnly

\* A request with "Bearer <token>" was admitted and carries the hashed identity
C35_Witness ==
    /\ gad.req.pc = "admitted"
    /\ gad.token = AdminToken
    /\ gad.req.authorization = {BearerScheme \o <<" ">> \o AdminToken}
    /\ gad.req.adminIdentity # {}

\* C36: an admin action that reached its handler has emitted exactly one audit
\* record, at level warn when the action failed and at level log when it succeeded,
\* whatever made it fail.
C36_EveryHandledActionIsAudited ==
    gad.req.pc = "handled" =>
        /\ Len(gad.req.audits) = 1
        /\ gad.req.audits[1].action = gad.req.action
        /\ gad.req.audits[1].level = IF gad.req.failed THEN "warn" ELSE "log"

\* C39: with a token configured and a rate-limit backend, the guard has counted
\* every request in the admin counter of (ip, token present or missing) and the
\* window, whatever its token; a request that found the window exhausted is
\* rejected with 429 and a retry-after of at least 1, also with the correct token,
\* gets no adminIdentity and reaches no handler. Without a configured token or
\* without a backend no request is admitted either.
C39_RateLimitComesBeforeTheToken ==
    PastGuard =>
        /\ (gad.token # <<>> /\ gad.client = "redis") =>
               LET counterKey ==
                       rateLimitKey("admin", buildAdminIdentifier(gad.req.ip, gad.req.token),
                                    gad.req.window)
               IN  /\ gad.req.consumed
                   /\ counterKey \in DOMAIN rlCounters
                   /\ rlCounters[counterKey].count = gad.req.before + 1
                   /\ gad.req.before >= RateLimitMaxRequests =>
                          /\ gad.req.pc = "rejected"
                          /\ gad.req.status = 429
                          /\ gad.req.retryAfter # {}
                          /\ \A seconds \in gad.req.retryAfter : seconds >= 1
                          /\ gad.req.adminIdentity = {}
                          /\ gad.req.audits = <<>>
                   /\ gad.req.status = 429 => gad.req.before >= RateLimitMaxRequests
        /\ (gad.token = <<>> \/ gad.client = "none") => gad.req.pc = "rejected"

\* A request with the correct token found the window exhausted and got 429
C39_Witness ==
    /\ gad.req.pc = "rejected"
    /\ gad.req.status = 429
    /\ gad.token = AdminToken
    /\ gad.req.token = {AdminToken}
    /\ gad.req.before >= RateLimitMaxRequests

====
